---- MODULE Spec2Model ----
(***************************************************************************)
(* Model of nanotron's distributed-coordination surface:                   *)
(*   - ParallelContext (src/nanotron/distributed/parallel_context.py):     *)
(*     validation, device binding, global group, 3D group construction,    *)
(*     registry (add_group / get_group), get_3d_ranks, destroy;            *)
(*   - the placeholder routing of examples/doremi/dataloader.py:           *)
(*     set_tensor_pointers, dummy_infinite_data_generator,                 *)
(*     DataCollatorForCLM.__call__, sanity_check_dataloader,               *)
(*     DistributedSamplerForDoReMi, SkipBatchSampler, _get_train_sampler,  *)
(*     _get_dataset_mix;                                                   *)
(*   - save_optimizer (src/nanotron/serialize/optimizer.py);               *)
(*   - OptimizerFromGradientAccumulator                                    *)
(*     (src/nanotron/core/optimizer/optimizer_from_gradient_accumulator.py).*)
(* Every worker process is one rank; the processes followed by the model   *)
(* are the ranks in `procs`.                                               *)
(***************************************************************************)
EXTENDS Integers, Sequences, FiniteSets, TLC

(* ------------------------------ bounds -------------------------------- *)
MaxWorld == 8        \* WORLD_SIZE ranges over 1..MaxWorld
MaxAxis  == 2        \* each of tp, dp, pp ranges over 1..MaxAxis
MaxPP    == 3        \* pipeline groups of the routing model have 1..MaxPP members
MaxBatch == 2        \* micro_batch_size ranges over 1..MaxBatch
MaxSeq   == 2        \* sequence_length ranges over 1..MaxSeq
MaxSeed  == 1        \* seed ranges over 1..MaxSeed
MaxYields == 2       \* micro-batches taken from the infinite generator per rank
MaxLoader == 2       \* batches taken from the dataloader by sanity_check_dataloader
MaxGroupRank == 1    \* ranks inside dp_pg and tp_pg range over 0..MaxGroupRank
MaxParams == 2       \* (name, param) pairs per parameter group: 0..MaxParams
MaxGroups == 2       \* parameter groups given to the optimizer: 1..MaxGroups
MaxSteps == 2        \* optimizer steps: the step counters stay within 0..MaxSteps
MaxLen == 6          \* len(dataset) ranges over 1..MaxLen
MaxReplicas == 2     \* num_replicas (dp_size) ranges over 1..MaxReplicas
MaxRng == 3          \* states of the numpy random generator: 0..MaxRng-1
MaxPasses == 2       \* passes made over the sampler
MaxDatasets == 2     \* entries of the dataset_dict given to _get_dataset_mix: 0..MaxDatasets
MaxSplits == 2       \* split names given to _get_dataset_mix: 0..MaxSplits

(* ----------------------------- variables ------------------------------ *)
VARIABLE world_size          \* int(os.environ["WORLD_SIZE"])
VARIABLE tp                  \* constructor argument tensor_parallel_size
VARIABLE dp                  \* constructor argument data_parallel_size
VARIABLE pp                  \* constructor argument pipeline_parallel_size
VARIABLE backend             \* constructor argument backend
VARIABLE dist_available      \* dist.is_available()
VARIABLE procs               \* the ranks (os.environ["RANK"]) followed by the model
VARIABLE pc                  \* pc[r]: position of rank r in its program
VARIABLE err                 \* err[r]: exception that ended the constructor ("" if none)
VARIABLE dist_initialized    \* dist_initialized[r]: dist.is_initialized() on rank r
VARIABLE log                 \* log[r]: device/collective calls issued by rank r, in order
VARIABLE world_pg            \* self.world_pg (Unset while the attribute does not exist)
VARIABLE tp_pg               \* self.tp_pg
VARIABLE dp_pg               \* self.dp_pg
VARIABLE pp_pg               \* self.pp_pg
VARIABLE world_rank_matrix   \* self.world_rank_matrix
VARIABLE world_ranks_to_pg   \* self.world_ranks_to_pg : sorted rank tuple -> group
VARIABLE groups              \* self._groups : ParallelMode -> group
VARIABLE ret                 \* ret[r]: outcome of the last get_3d_ranks / destroy call

VARIABLE source              \* which producer builds the micro-batches of the pipeline group
VARIABLE pp_size             \* size of the pipeline group pp_pg
VARIABLE input_pp_rank       \* input_pp_rank of the producer
VARIABLE output_pp_rank      \* output_pp_rank of the producer
VARIABLE group_rank          \* group_rank argument of set_tensor_pointers
VARIABLE input_keys          \* keys of the input_dict given to set_tensor_pointers
VARIABLE micro_batch_size    \* micro_batch_size
VARIABLE sequence_length     \* sequence_length
VARIABLE row_length          \* length of the input_ids rows of the dataset
VARIABLE columns             \* column names of the dataset
VARIABLE seed                \* seed of dummy_infinite_data_generator
VARIABLE dp_rank             \* dist.get_rank(dpg.dp_pg) of the pipeline group's members
VARIABLE batch               \* batch[q]: last micro-batch produced on pipeline rank q
VARIABLE bstatus             \* bstatus[q]: "" before the first one, "ok", or the exception raised
VARIABLE yields              \* yields[q]: number of micro-batches produced on pipeline rank q

VARIABLE sc_ignore           \* config.general.ignore_sanity_checks
VARIABLE sc_dp_rank          \* dist.get_rank(dpg.dp_pg) of the rank running sanity_check_dataloader
VARIABLE sc_tp_rank          \* dist.get_rank(dpg.tp_pg) of that rank
VARIABLE sc_n                \* number of batches taken from the dataloader so far
VARIABLE sc_yielded          \* number of micro-batches yielded so far
VARIABLE sc_in               \* the batch taken last from the dataloader
VARIABLE sc_dp0              \* the micro-batch that rank 0 of dp_pg holds at the same iteration
VARIABLE sc_tp0              \* the micro-batch that rank 0 of tp_pg holds at the same iteration
VARIABLE sc_out              \* the micro-batch yielded last
VARIABLE sc_calls            \* cross-rank comparisons made for the batch taken last, in order
VARIABLE sc_err              \* the exception that ended the generator (NoError if none)

VARIABLE grp_pp_rank         \* pipeline rank shared by the members of a data x tensor grid
VARIABLE grp_input_pp_rank   \* input_pp_rank
VARIABLE grp_output_pp_rank  \* output_pp_rank
VARIABLE grp_ignore          \* config.general.ignore_sanity_checks, the same on every member
VARIABLE grp_n               \* number of batches every member took from its dataloader
VARIABLE grp_batch           \* grp_batch[<<a, b>>]: batch of the member of dp rank a, tp rank b
VARIABLE grp_calls           \* grp_calls[<<a, b>>]: the comparisons that member made, in order
VARIABLE grp_err             \* grp_err[<<a, b>>]: the exception that ended its generator

groupVars == <<grp_pp_rank, grp_input_pp_rank, grp_output_pp_rank, grp_ignore, grp_n,
               grp_batch, grp_calls, grp_err>>

sanityVars == <<sc_ignore, sc_dp_rank, sc_tp_rank, sc_n, sc_yielded, sc_in, sc_dp0, sc_tp0,
                sc_out, sc_calls, sc_err, groupVars>>

VARIABLE opt_pc              \* "new", "built" or "failed": the OptimizerFromGradientAccumulator object
VARIABLE opt_input           \* the named_params_or_groups argument of __init__
VARIABLE opt_last            \* name of the method called last
VARIABLE opt_in              \* its argument, as it was when passed
VARIABLE opt_status          \* how it ended: "ok" or the exception raised
VARIABLE opt_ret             \* what it returned
VARIABLE opt_calls           \* the calls it made on the builders, the wrapped optimizer and the accumulator
VARIABLE opt_arg             \* the caller's mapping after load_state_dict
VARIABLE base_state          \* state of the wrapped optimizer (self.optimizer)
VARIABLE acc_state           \* state of self.gradient_accumulator
VARIABLE opt_sd              \* the state dict returned at the start of a round trip
VARIABLE rt_stage            \* position in a round trip state_dict / load_state_dict / state_dict
VARIABLE rt_base             \* base_state when opt_sd was returned
VARIABLE rt_acc              \* acc_state when opt_sd was returned

optVars == <<opt_pc, opt_input, opt_last, opt_in, opt_status, opt_ret, opt_calls, opt_arg,
             base_state, acc_state, opt_sd, rt_stage, rt_base, rt_acc>>

VARIABLE sm_lengths          \* len(d) for d in self.datasets
VARIABLE sm_weights          \* domain_weights as given to the sampler
VARIABLE sm_num_replicas     \* self.num_replicas (dp_size)
VARIABLE sm_rank             \* self.rank (dp_rank)
VARIABLE sm_batch_size       \* self.batch_size
VARIABLE sm_rng              \* state of the global numpy random generator
VARIABLE sm_drawn            \* global indices drawn per dataset in the last pass
VARIABLE sm_batches          \* the batches yielded by the last pass
VARIABLE sm_passes           \* number of passes made
VARIABLE ts_rank             \* dp_rank of a second run, of the sampler _get_train_sampler returns
VARIABLE ts_consumed         \* consumed_train_samples of the second run
VARIABLE ts_kind             \* class of the sampler returned to the second run
VARIABLE ts_len              \* what __len__ of the sampler returned to the second run returns
VARIABLE ts_inner_len        \* what __len__ of the DoReMi sampler built for the second run returns
VARIABLE ts_rng              \* state of the numpy generator of the second run's process
VARIABLE ts_inner            \* batches of the DoReMi sampler in the second run's pass
VARIABLE ts_batches          \* batches the returned sampler yielded in the second run's pass
VARIABLE ts_passes           \* number of passes made by the second run

trainSamplerVars == <<ts_rank, ts_consumed, ts_kind, ts_len, ts_inner_len, ts_rng, ts_inner, ts_batches, ts_passes>>

samplerVars == <<sm_lengths, sm_weights, sm_num_replicas, sm_rank, sm_batch_size, sm_rng,
                 sm_drawn, sm_batches, sm_passes, trainSamplerVars>>

routerVars == <<source, pp_size, input_pp_rank, output_pp_rank, group_rank, input_keys,
                micro_batch_size, sequence_length, row_length, columns, seed, dp_rank,
                batch, bstatus, yields>>

topoVars == <<world_size, tp, dp, pp, backend, dist_available, procs, pc, err,
              dist_initialized, log, world_pg, tp_pg, dp_pg, pp_pg,
              world_rank_matrix, world_ranks_to_pg, groups, ret>>

(* A process group handle is the position in log[r] of the call that made  *)
(* it; DefaultPg is the default group of torch.distributed (the group      *)
(* dist.barrier() and dist.destroy_process_group() use without argument).  *)
DefaultPg == 0
Unset == -1
EmptyMap == [x \in {} |-> 0]
Range(s) == {s[i] : i \in DOMAIN s}

(* ParallelMode members used by parallel_context.py *)
ParallelMode == {"GLOBAL", "TENSOR", "DATA", "PIPELINE"}

(* ------------------------- numpy array helpers ------------------------ *)
(* An array is [shape |-> <<...>>, data |-> row-major flat sequence].      *)
Prod(s) == IF Len(s) = 0 THEN 1
           ELSE IF Len(s) = 1 THEN s[1]
           ELSE IF Len(s) = 2 THEN s[1] * s[2]
           ELSE s[1] * s[2] * s[3]

np_arange(n) == [shape |-> <<n>>, data |-> [i \in 1..n |-> i - 1]]

np_reshape(a, shape) == [shape |-> shape, data |-> a.data]

\* 0-based multi-index of 0-based flat position f in a 3D shape (row-major)
Unravel3(f, s) == << f \div (s[2] * s[3]), (f \div s[3]) % s[2], f % s[3] >>
Ravel3(idx, s) == (idx[1] * s[2] + idx[2]) * s[3] + idx[3]

\* a.transpose(perm) for a 3D array; perm lists 0-based source axes
np_transpose(a, perm) ==
  LET s  == a.shape
      s2 == [n \in 1..3 |-> s[perm[n] + 1]]
      src(idx2) == [m \in 1..3 |-> idx2[CHOOSE n \in 1..3 : perm[n] + 1 = m]]
  IN [shape |-> s2,
      data  |-> [f \in 1..Prod(s) |-> a.data[Ravel3(src(Unravel3(f - 1, s2)), s) + 1]]]

\* iteration over the first axis of a 2D array: the sequence of its rows
Rows(a) == [m \in 1..a.shape[1] |-> SubSeq(a.data, (m - 1) * a.shape[2] + 1, m * a.shape[2])]

\* ranks[:, j, :].reshape(-1) for a 3D array
SliceAxis1(a, j) ==
  LET s == a.shape
  IN [f \in 1..(s[1] * s[3]) |->
        a.data[Ravel3(<<(f - 1) \div s[3], j, (f - 1) % s[3]>>, s) + 1]]

\* tuple(sorted(x))
sorted(x) == SortSeq(x, LAMBDA u, v : u < v)

(* --------------------------- call records ----------------------------- *)
Call(op, arg) == [op |-> op, arg |-> arg]
SetDeviceCall(local_rank) == Call("set_device", <<local_rank>>)
InitProcessGroupCall(rank, ws) == Call("init_process_group", <<rank, ws>>)
NewGroupCall(ranks) == Call("new_group", ranks)
BarrierCall(pg) == Call("barrier", <<pg>>)
DestroyCall(pg) == Call("destroy_process_group", <<pg>>)

Collectives == {"init_process_group", "new_group", "barrier", "destroy_process_group"}

\* members of the group behind handle h on a rank whose call log is lg
Members(lg, h) == IF h \in 1..Len(lg) /\ lg[h].op = "new_group" THEN Range(lg[h].arg) ELSE {}

(* ------------------- ParallelContext.__init__ (validation) ------------ *)
\* variant of Validate that omits the product check of lines 62-65
Validate_no_product(ws, tps, dps, pps, avail) ==
  LET num_gpus_per_model == tps * pps
  IN IF ws % dps # 0 THEN "AssertionError"
     ELSE IF ws % num_gpus_per_model # 0 THEN "AssertionError"
     ELSE IF ~avail THEN "ValueError"
     ELSE ""

\* lines 52-68: the exception the checks raise, "" when they all pass
Validate(ws, tps, dps, pps, avail) ==
  LET num_gpus_per_model == tps * pps
  IN IF ws % dps # 0 THEN "AssertionError"
     ELSE IF ws % num_gpus_per_model # 0 THEN "AssertionError"
     ELSE IF num_gpus_per_model * dps # ws THEN "AssertionError"
     ELSE IF ~avail THEN "ValueError"
     ELSE ""

(* --------------------------- set_device ------------------------------- *)
\* int(os.getenv("LOCAL_RANK", "0")); the job is launched on one host, where
\* the launcher sets LOCAL_RANK to the rank
LOCAL_RANK(r) == r

\* the calls set_device makes
set_device_calls(r) == << SetDeviceCall(LOCAL_RANK(r)) >>

(* -------------------------- init_global_dist -------------------------- *)
\* list(range(world_size))
range_list(n) == [i \in 1..n |-> i - 1]

\* the calls init_global_dist makes for a rank (lines 110-118)
init_global_dist_calls(r, ws) ==
  << InitProcessGroupCall(r, ws), NewGroupCall(range_list(ws)) >>

(* ------------------------- init_parallel_groups ----------------------- *)
\* np.arange(0, world_size).reshape((pp, dp, tp))
rank_matrix(ws, pps, dps, tps) == np_reshape(np_arange(ws), <<pps, dps, tps>>)

\* variant of ranks_with_tp_last that reshapes with the data axis last
ranks_with_tp_last_dp_shape(ranks, pps, dps, tps) ==
  np_reshape(ranks, <<pps * tps, dps>>)

ranks_with_tp_last(ranks, pps, dps, tps) ==
  np_reshape(ranks, <<pps * dps, tps>>)

ranks_with_dp_last(ranks, pps, dps, tps) ==
  np_reshape(np_transpose(ranks, <<0, 2, 1>>), <<pps * tps, dps>>)

ranks_with_pp_last(ranks, pps, dps, tps) ==
  np_reshape(np_transpose(ranks, <<2, 1, 0>>), <<tps * dps, pps>>)

\* the rows iterated by `for dp_rank in range(dp): ranks[:, dp_rank, :].reshape(-1)`
pp_and_tp_rows(ranks, dps) == [j \in 1..dps |-> SliceAxis1(ranks, j - 1)]

\* variant of must_create that never finds the tuple in the dictionary
must_create_always(sorted_ranks, w2pg) == TRUE

\* `sorted_ranks not in world_ranks_to_pg`
must_create(sorted_ranks, w2pg) == sorted_ranks \notin DOMAIN w2pg

\* variant of issues_new_group in which only the members of a group create it
issues_new_group_members_only(rank, row, w2pg) ==
  must_create(sorted(row), w2pg) /\ rank \in Range(row)

\* whether the loop body issues dist.new_group for this row on this rank
issues_new_group(rank, row, w2pg) == must_create(sorted(row), w2pg)

\* One iteration of a group loop (lines 146-153).  st = [log, w2pg, pg]:
\* the call log, world_ranks_to_pg and the loop's *_pg local.
loop_body(rank, row, st, assign) ==
  LET sorted_ranks == sorted(row)
      create == issues_new_group(rank, row, st.w2pg)
      lg2    == IF create THEN Append(st.log, NewGroupCall(row)) ELSE st.log
      new_group == IF create THEN Len(lg2) ELSE st.w2pg[sorted_ranks]
      w2     == IF create THEN (sorted_ranks :> new_group) @@ st.w2pg ELSE st.w2pg
  IN [log  |-> lg2,
      w2pg |-> w2,
      pg   |-> IF assign /\ rank \in Range(row) THEN new_group ELSE st.pg]

RECURSIVE group_loop(_, _, _, _, _)
group_loop(rank, rows, i, st, assign) ==
  IF i > Len(rows) THEN st
  ELSE group_loop(rank, rows, i + 1, loop_body(rank, rows[i], st, assign), assign)

\* The whole of init_parallel_groups after the first barrier (lines 133-210)
\* run by `rank` on call log lg0: the final log, the dictionary and the
\* three handles.
build_groups(rank, ws, pps, dps, tps, lg0) ==
  LET ranks == rank_matrix(ws, pps, dps, tps)
      s0  == [log |-> lg0, w2pg |-> EmptyMap, pg |-> Unset]
      s1  == group_loop(rank, Rows(ranks_with_tp_last(ranks, pps, dps, tps)), 1, s0, TRUE)
      s2  == group_loop(rank, Rows(ranks_with_dp_last(ranks, pps, dps, tps)), 1,
                        [s1 EXCEPT !.pg = Unset], TRUE)
      s3  == group_loop(rank, Rows(ranks_with_pp_last(ranks, pps, dps, tps)), 1,
                        [s2 EXCEPT !.pg = Unset], TRUE)
      s4  == group_loop(rank, pp_and_tp_rows(ranks, dps), 1, s3, FALSE)
  IN [log |-> s4.log, w2pg |-> s4.w2pg,
      tp_pg |-> s1.pg, dp_pg |-> s2.pg, pp_pg |-> s3.pg, ranks |-> ranks]

(* ----------------------- registry and teardown ------------------------ *)
\* the methods class ParallelContext defines (the commented-out ones, such
\* as get_world_size and get_local_rank, are not attributes of the class)
ParallelContextMethods ==
  {"init_global_dist", "init_parallel_groups", "set_device", "map_rank_to_device",
   "is_initialized", "get_global_rank_from_local_rank", "add_group", "get_group",
   "get_3d_ranks", "destroy"}

has_method(name) == name \in ParallelContextMethods

Outcome(op, status, val, arg) == [op |-> op, status |-> status, val |-> val, arg |-> arg]
NoOutcome == Outcome("", "", <<>>, <<>>)

\* self._groups is a dict: the sequence of its <<mode, group>> items in
\* insertion order
dict_keys(g) == {g[i][1] : i \in DOMAIN g}
dict_get(g, k) == g[CHOOSE i \in DOMAIN g : g[i][1] = k][2]
dict_set(g, k, v) ==
  IF k \in dict_keys(g)
    THEN [i \in DOMAIN g |-> IF g[i][1] = k THEN <<k, v>> ELSE g[i]]
    ELSE Append(g, <<k, v>>)

\* variant of is_initialized that reports every mode as registered
is_initialized_always(g, parallel_mode) == TRUE

\* is_initialized(parallel_mode) on registry g
is_initialized(g, parallel_mode) == parallel_mode \in dict_keys(g)

\* add_group(parallel_mode, group) on registry g
add_group_result(g, parallel_mode, group) == dict_set(g, parallel_mode, group)

\* pp_rank, dp_rank, tp_rank arithmetic of get_3d_ranks (lines 336-339)
coords_3d(rank, tp_world_size, dp_world_size, pp_world_size) ==
  << (rank \div (tp_world_size * dp_world_size)) % pp_world_size,
     (rank \div tp_world_size) % dp_world_size,
     rank % tp_world_size >>

\* dist.get_global_rank(group, local_rank): the local_rank-th member
group_global_rank(members, local_rank) ==
  LET m == sorted(members) IN m[local_rank + 1]

\* number of ranks of the group registered for mode m (what a get_world_size
\* method would report)
group_size(g, lg, m) == Len(lg[dict_get(g, m)].arg)

\* get_3d_ranks(local_rank, parallel_mode) on a context with registry g and
\* call log lg
get_3d_ranks_outcome(g, lg, local_rank, parallel_mode) ==
  LET arg == <<local_rank, parallel_mode>>
  IN IF parallel_mode \notin dict_keys(g)
       THEN Outcome("get_3d_ranks", "KeyError", <<>>, arg)            \* get_group, line 301
     ELSE IF local_rank + 1 \notin DOMAIN lg[dict_get(g, parallel_mode)].arg
       THEN Outcome("get_3d_ranks", "ValueError", <<>>, arg)          \* dist.get_global_rank
     ELSE IF ~has_method("get_world_size")
       THEN Outcome("get_3d_ranks", "AttributeError", <<>>, arg)      \* line 332
     ELSE Outcome("get_3d_ranks", "ok",
                  coords_3d(group_global_rank(lg[dict_get(g, parallel_mode)].arg, local_rank),
                            group_size(g, lg, "TENSOR"), group_size(g, lg, "DATA"),
                            group_size(g, lg, "PIPELINE")), arg)

\* The loop of destroy (lines 343-351) from item i on: the status and the
\* calls issued.
RECURSIVE destroy_loop(_, _, _)
destroy_loop(g, lg, i) ==
  IF i > Len(g) THEN [status |-> "ok", calls |-> <<>>]
  ELSE IF g[i][1] = "GLOBAL" THEN destroy_loop(g, lg, i + 1)
  ELSE IF ~is_initialized(g, g[i][1]) THEN destroy_loop(g, lg, i + 1)
  ELSE IF ~has_method("get_world_size") THEN [status |-> "AttributeError", calls |-> <<>>]
  ELSE LET rest == destroy_loop(g, lg, i + 1)
           mine == IF group_size(g, lg, g[i][1]) > 1
                     THEN << BarrierCall(g[i][2]), DestroyCall(g[i][2]) >> ELSE <<>>
       IN [status |-> rest.status, calls |-> IF rest.status = "ok" THEN mine \o rest.calls ELSE mine]

\* destroy() on registry g: the status, the calls issued and the registry left
destroy_outcome(g, lg) ==
  IF ~is_initialized(g, "GLOBAL")
    THEN [status |-> "AssertionError", calls |-> <<>>, groups |-> g]        \* line 342
  ELSE LET lp == destroy_loop(g, lg, 1)
       IN IF lp.status # "ok"
            THEN [status |-> lp.status, calls |-> lp.calls, groups |-> g]
            ELSE [status |-> "ok",
                  calls  |-> lp.calls \o << BarrierCall(DefaultPg), DestroyCall(DefaultPg) >>,
                  groups |-> <<>>]                                          \* lines 353-356

\* the variables the ParallelContext operations leave alone, and conversely
VARIABLE sv_pp_size          \* parallel_context.pp_pg.size() of the job that saves its optimizer
VARIABLE sv_dp_size          \* parallel_context.dp_pg.size()
VARIABLE sv_tp_size          \* parallel_context.tp_pg.size()
VARIABLE sv_is_zero          \* optimizer.inherit_from(optim.ZeroDistributedOptimizer)
VARIABLE sv_called           \* the world ranks that have run save_optimizer
VARIABLE sv_written          \* sv_written[r]: the files world rank r wrote, in order

saveVars == <<sv_pp_size, sv_dp_size, sv_tp_size, sv_is_zero, sv_called, sv_written>>

VARIABLE mix_fracs           \* the fractions of dataset_dict, in the order of its items
VARIABLE mix_splits          \* splits
VARIABLE mix_pc              \* "call" before _get_dataset_mix runs, "done" after
VARIABLE mix_status          \* "ok" or the exception _get_dataset_mix raised
VARIABLE mix_result          \* the keys of the DatasetDict returned
VARIABLE mix_loaded          \* the (dataset position, split) pairs given to load_dataset, in order

mixVars == <<mix_fracs, mix_splits, mix_pc, mix_status, mix_result, mix_loaded>>

nonTopoVars == <<routerVars, sanityVars, optVars, samplerVars, saveVars, mixVars>>
nonRouterVars == <<topoVars, sanityVars, optVars, samplerVars, saveVars, mixVars>>
nonSanityVars == <<topoVars, routerVars, optVars, samplerVars, saveVars, mixVars>>
nonOptVars == <<topoVars, routerVars, sanityVars, samplerVars, saveVars, mixVars>>
nonSamplerVars == <<topoVars, routerVars, sanityVars, optVars, saveVars, mixVars>>
nonSaveVars == <<topoVars, routerVars, sanityVars, optVars, samplerVars, mixVars>>
nonMixVars == <<topoVars, routerVars, sanityVars, optVars, samplerVars, saveVars>>

(* ------------------------------ actions ------------------------------- *)
Fail(r, e) ==
  /\ pc' = [pc EXCEPT ![r] = "failed"]
  /\ err' = [err EXCEPT ![r] = e]

\* __init__, lines 52-77: the three assertions, the availability check and
\* the initialisation of the attributes
InitValidate(r) ==
  /\ pc[r] = "new"
  /\ LET e == Validate(world_size, tp, dp, pp, dist_available)
     IN IF e # "" THEN Fail(r, e)
        ELSE /\ pc' = [pc EXCEPT ![r] = "validated"]
             /\ err' = err
  /\ UNCHANGED <<world_size, tp, dp, pp, backend, dist_available, procs,
                 dist_initialized, log, world_pg, tp_pg, dp_pg, pp_pg,
                 world_rank_matrix, world_ranks_to_pg, groups, ret>>
  /\ UNCHANGED nonTopoVars

\* __init__, line 84: self.set_device()
set_device(r) ==
  /\ pc[r] = "validated"
  /\ log' = [log EXCEPT ![r] = @ \o set_device_calls(r)]
  /\ pc' = [pc EXCEPT ![r] = "device"]
  /\ UNCHANGED <<world_size, tp, dp, pp, backend, dist_available, procs, err,
                 dist_initialized, world_pg, tp_pg, dp_pg, pp_pg,
                 world_rank_matrix, world_ranks_to_pg, groups, ret>>
  /\ UNCHANGED nonTopoVars

\* __init__, lines 86-93, with init_global_dist (lines 98-121)
init_global_dist(r) ==
  /\ pc[r] = "device"
  /\ IF dist_initialized[r]
       THEN /\ pc' = [pc EXCEPT ![r] = "dist"]
            /\ UNCHANGED <<err, log, world_pg, dist_initialized>>
     ELSE IF backend # "nccl"
       THEN /\ Fail(r, "AssertionError")                                   \* line 108
            /\ UNCHANGED <<log, world_pg, dist_initialized>>
     ELSE /\ log' = [log EXCEPT ![r] = @ \o init_global_dist_calls(r, world_size)]
          /\ world_pg' = [world_pg EXCEPT ![r] = Len(log'[r])]
          /\ dist_initialized' = [dist_initialized EXCEPT ![r] = TRUE]
          /\ pc' = [pc EXCEPT ![r] = "dist"]
          /\ err' = err
  /\ UNCHANGED <<world_size, tp, dp, pp, backend, dist_available, procs,
                 tp_pg, dp_pg, pp_pg, world_rank_matrix, world_ranks_to_pg, groups, ret>>
  /\ UNCHANGED nonTopoVars

\* __init__, line 95: self.init_parallel_groups() (lines 124-212)
init_parallel_groups(r) ==
  /\ pc[r] = "dist"
  /\ IF world_pg[r] = Unset
       THEN /\ Fail(r, "AttributeError")                                   \* line 130
            /\ UNCHANGED <<log, tp_pg, dp_pg, pp_pg, world_rank_matrix, world_ranks_to_pg>>
     ELSE LET b == build_groups(r, world_size, pp, dp, tp,
                                Append(log[r], BarrierCall(world_pg[r])))
          IN IF Unset \in {b.tp_pg, b.dp_pg, b.pp_pg}
               THEN /\ Fail(r, "UnboundLocalError")                        \* lines 192-194
                    /\ log' = [log EXCEPT ![r] = b.log]
                    /\ UNCHANGED <<tp_pg, dp_pg, pp_pg, world_rank_matrix, world_ranks_to_pg>>
               ELSE /\ log' = [log EXCEPT ![r] = Append(b.log, BarrierCall(DefaultPg))]
                    /\ tp_pg' = [tp_pg EXCEPT ![r] = b.tp_pg]
                    /\ dp_pg' = [dp_pg EXCEPT ![r] = b.dp_pg]
                    /\ pp_pg' = [pp_pg EXCEPT ![r] = b.pp_pg]
                    /\ world_rank_matrix' = [world_rank_matrix EXCEPT ![r] = b.ranks]
                    /\ world_ranks_to_pg' = [world_ranks_to_pg EXCEPT ![r] = b.w2pg]
                    /\ pc' = [pc EXCEPT ![r] = "groups"]
                    /\ err' = err
  /\ UNCHANGED <<world_size, tp, dp, pp, backend, dist_available, procs,
                 dist_initialized, world_pg, groups, ret>>
  /\ UNCHANGED nonTopoVars

\* __init__, line 96: the final dist.barrier()
InitFinish(r) ==
  /\ pc[r] = "groups"
  /\ log' = [log EXCEPT ![r] = Append(@, BarrierCall(DefaultPg))]
  /\ pc' = [pc EXCEPT ![r] = "ready"]
  /\ UNCHANGED <<world_size, tp, dp, pp, backend, dist_available, procs, err,
                 dist_initialized, world_pg, tp_pg, dp_pg, pp_pg,
                 world_rank_matrix, world_ranks_to_pg, groups, ret>>
  /\ UNCHANGED nonTopoVars

\* the group a caller registers for a mode
GroupOfMode(r, mode) ==
  CASE mode = "GLOBAL"   -> world_pg[r]
    [] mode = "TENSOR"   -> tp_pg[r]
    [] mode = "DATA"     -> dp_pg[r]
    [] mode = "PIPELINE" -> pp_pg[r]

\* add_group(parallel_mode, group) called on a constructed context
add_group(r, mode) ==
  /\ pc[r] = "ready"
  /\ groups' = [groups EXCEPT ![r] = add_group_result(@, mode, GroupOfMode(r, mode))]
  /\ UNCHANGED <<world_size, tp, dp, pp, backend, dist_available, procs, pc, err,
                 dist_initialized, log, world_pg, tp_pg, dp_pg, pp_pg,
                 world_rank_matrix, world_ranks_to_pg, ret>>
  /\ UNCHANGED nonTopoVars

\* get_3d_ranks(local_rank, parallel_mode) called on a constructed context;
\* an exception propagates to the caller and ends the program
get_3d_ranks(r, local_rank, mode) ==
  /\ pc[r] = "ready"
  /\ ret' = [ret EXCEPT ![r] = get_3d_ranks_outcome(groups[r], log[r], local_rank, mode)]
  /\ pc' = [pc EXCEPT ![r] = IF ret'[r].status = "ok" THEN "ready" ELSE "raised"]
  /\ UNCHANGED <<world_size, tp, dp, pp, backend, dist_available, procs, err,
                 dist_initialized, log, world_pg, tp_pg, dp_pg, pp_pg,
                 world_rank_matrix, world_ranks_to_pg, groups>>
  /\ UNCHANGED nonTopoVars

\* destroy() called on a constructed context
destroy(r) ==
  /\ pc[r] = "ready"
  /\ LET o == destroy_outcome(groups[r], log[r])
     IN /\ ret' = [ret EXCEPT ![r] = Outcome("destroy", o.status, <<>>, <<>>)]
        /\ log' = [log EXCEPT ![r] = @ \o o.calls]
        /\ groups' = [groups EXCEPT ![r] = o.groups]
        /\ pc' = [pc EXCEPT ![r] = IF o.status = "ok" THEN "destroyed" ELSE "raised"]
        /\ dist_initialized' = [dist_initialized EXCEPT ![r] = IF o.status = "ok" THEN FALSE ELSE @]
  /\ UNCHANGED <<world_size, tp, dp, pp, backend, dist_available, procs, err,
                 world_pg, tp_pg, dp_pg, pp_pg, world_rank_matrix, world_ranks_to_pg>>
  /\ UNCHANGED nonTopoVars

(* ----------------------- placeholder routing -------------------------- *)
\* A value of a micro-batch field: a TensorPointer, a numpy array or a torch
\* tensor.  data is a matrix (sequence of rows) of integers.
TensorPointer(owner) == [type |-> "TensorPointer", group_rank |-> owner, data |-> <<>>]
ndarray(d) == [type |-> "ndarray", group_rank |-> Unset, data |-> d]
Tensor(d) == [type |-> "Tensor", group_rank |-> Unset, data |-> d]
isinstance(v, t) == v.type = t

\* torch.from_numpy
from_numpy(v) == Tensor(v.data)

\* torch.ones(micro_batch_size, sequence_length) / np.ones((b, s))
ones(b, s) == [i \in 1..b |-> [j \in 1..s |-> 1]]

\* torch.randint(..., generator=generator): the n-th draw of a generator
\* seeded with gseed, as the pair that determines it
randint(gseed, n) == << <<gseed, n>> >>

NoBatch == EmptyMap

\* variant of owns in which every member keeps the data
owns_always(current_rank, owner) == TRUE

\* dist.get_rank(group) == group_rank
owns(current_rank, owner) == current_rank = owner

\* set_tensor_pointers(input_dict, group, group_rank) on the member of `group`
\* whose rank in it is current_rank (lines 259-262)
set_tensor_pointers(input_dict, current_rank, owner) ==
  [k \in DOMAIN input_dict |->
     IF owns(current_rank, owner) THEN input_dict[k] ELSE TensorPointer(owner)]

\* generator.manual_seed argument (line 185)
generator_seed(sd, dprank, pprank) == sd * (1 + dprank) * (1 + pprank)

\* the n-th micro-batch of dummy_infinite_data_generator on pipeline rank
\* current_pp_rank (lines 187-225); input_ids is drawn before label_ids
dummy_batch(current_pp_rank, in_rank, out_rank, mbs, seqlen, gseed, n) ==
  LET per_batch == (IF owns(current_pp_rank, in_rank) THEN 1 ELSE 0)
                 + (IF owns(current_pp_rank, out_rank) THEN 1 ELSE 0)
      first == (n - 1) * per_batch + 1
  IN [k \in {"input_ids", "input_mask", "label_ids", "label_mask"} |->
       CASE k = "input_ids" ->
              IF owns(current_pp_rank, in_rank) THEN Tensor(randint(gseed, first))
              ELSE TensorPointer(in_rank)
         [] k = "input_mask" ->
              IF owns(current_pp_rank, in_rank) THEN Tensor(ones(mbs, seqlen))
              ELSE TensorPointer(in_rank)
         [] k = "label_ids" ->
              IF owns(current_pp_rank, out_rank)
                THEN Tensor(randint(gseed, first + (IF owns(current_pp_rank, in_rank) THEN 1 ELSE 0)))
              ELSE TensorPointer(out_rank)
         [] k = "label_mask" ->
              IF owns(current_pp_rank, out_rank) THEN Tensor(ones(mbs, seqlen))
              ELSE TensorPointer(out_rank)]

\* row i of the dataset: row_length distinct token ids
dataset_row(i, len) == [j \in 1..len |-> (i - 1) * len + j]

\* the examples the DataLoader hands to the collator on pipeline rank q
\* (get_train_dataloader, lines 539-562): ranks that are neither the input
\* nor the output rank read an EmptyInfiniteDataset, whose items are {}
examples_for(q, in_rank, out_rank, mbs, len, cols) ==
  [i \in 1..mbs |->
     IF q \notin {in_rank, out_rank} THEN EmptyMap
     ELSE [c \in Range(cols) |-> dataset_row(i, len)]]

\* input_ids[:, :-1] and input_ids[:, 1:]
drop_last(m) == [i \in DOMAIN m |-> SubSeq(m[i], 1, Len(m[i]) - 1)]
drop_first(m) == [i \in DOMAIN m |-> SubSeq(m[i], 2, Len(m[i]))]

\* variant of placeholders that names input_pp_rank in all four fields
placeholders_input_only(in_rank, out_rank) ==
  [k \in {"input_ids", "input_mask", "label_ids", "label_mask"} |-> TensorPointer(in_rank)]

\* the four TensorPointers of lines 336-339 and 351-354
placeholders(in_rank, out_rank) ==
  [k \in {"input_ids", "input_mask", "label_ids", "label_mask"} |->
     IF k \in {"input_ids", "input_mask"} THEN TensorPointer(in_rank) ELSE TensorPointer(out_rank)]

\* DataCollatorForCLM.__call__(examples) on pipeline rank current_pp_rank
\* (lines 327-383): [status, batch]
collate(examples, current_pp_rank, in_rank, out_rank, seqlen) ==
  IF current_pp_rank \notin {in_rank, out_rank}
    THEN IF \E i \in DOMAIN examples : DOMAIN examples[i] # {}
           THEN [status |-> "AssertionError", batch |-> NoBatch]          \* line 334
           ELSE [status |-> "ok", batch |-> placeholders(in_rank, out_rank)]
  ELSE IF \E i \in DOMAIN examples : DOMAIN examples[i] # {"input_ids"}
    THEN [status |-> "AssertionError", batch |-> NoBatch]                  \* line 343
  ELSE
    LET input_ids == [i \in DOMAIN examples |-> examples[i]["input_ids"]]   \* np.vstack
        batch_size == Len(input_ids)
        expanded_input_length == Len(input_ids[1])
        result0 == placeholders(in_rank, out_rank)
        result1 == IF current_pp_rank = in_rank
                     THEN [result0 EXCEPT !["input_ids"] = ndarray(drop_last(input_ids)),
                                          !["input_mask"] = ndarray(ones(batch_size, seqlen))]
                     ELSE result0
        result2 == IF current_pp_rank = out_rank
                     THEN [result1 EXCEPT !["label_ids"] = ndarray(drop_first(input_ids)),
                                          !["label_mask"] = ndarray(ones(batch_size, seqlen))]
                     ELSE result1
        width(v) == IF Len(v.data) = 0 THEN 0 ELSE Len(v.data[1])
    IN IF expanded_input_length # seqlen + 1
         THEN [status |-> "AssertionError", batch |-> NoBatch]             \* line 356
       ELSE IF isinstance(result2["input_ids"], "Tensor") /\ width(result2["input_ids"]) # seqlen
         THEN [status |-> "ValueError", batch |-> NoBatch]                 \* line 370
       ELSE IF isinstance(result2["label_ids"], "Tensor") /\ width(result2["label_ids"]) # seqlen
         THEN [status |-> "ValueError", batch |-> NoBatch]                 \* line 375
       ELSE [status |-> "ok",
             batch  |-> [k \in DOMAIN result2 |->
                           IF isinstance(result2[k], "TensorPointer") THEN result2[k]
                           ELSE from_numpy(result2[k])]]

\* the input_dict a member hands to set_tensor_pointers: one real tensor per key
input_dict_of(keys, q) == [k \in keys |-> Tensor(<< <<q>> >>)]

\* pipeline rank q routes its input_dict through set_tensor_pointers
SetTensorPointers(q) ==
  /\ source = "set_tensor_pointers"
  /\ bstatus[q] = ""
  /\ batch' = [batch EXCEPT ![q] = set_tensor_pointers(input_dict_of(input_keys, q), q, group_rank)]
  /\ bstatus' = [bstatus EXCEPT ![q] = "ok"]
  /\ yields' = [yields EXCEPT ![q] = @ + 1]
  /\ UNCHANGED <<source, pp_size, input_pp_rank, output_pp_rank, group_rank, input_keys,
                 micro_batch_size, sequence_length, row_length, columns, seed, dp_rank>>
  /\ UNCHANGED nonRouterVars

\* pipeline rank q takes the next micro-batch of dummy_infinite_data_generator
DummyNext(q) ==
  /\ source = "dummy_infinite_data_generator"
  /\ yields[q] < MaxYields
  /\ batch' = [batch EXCEPT ![q] =
                 dummy_batch(q, input_pp_rank, output_pp_rank, micro_batch_size, sequence_length,
                             generator_seed(seed, dp_rank, q), yields[q] + 1)]
  /\ bstatus' = [bstatus EXCEPT ![q] = "ok"]
  /\ yields' = [yields EXCEPT ![q] = @ + 1]
  /\ UNCHANGED <<source, pp_size, input_pp_rank, output_pp_rank, group_rank, input_keys,
                 micro_batch_size, sequence_length, row_length, columns, seed, dp_rank>>
  /\ UNCHANGED nonRouterVars

\* pipeline rank q collates the examples of one micro-batch
Collate(q) ==
  /\ source = "DataCollatorForCLM"
  /\ bstatus[q] = ""
  /\ LET c == collate(examples_for(q, input_pp_rank, output_pp_rank, micro_batch_size,
                                   row_length, columns),
                      q, input_pp_rank, output_pp_rank, sequence_length)
     IN /\ batch' = [batch EXCEPT ![q] = c.batch]
        /\ bstatus' = [bstatus EXCEPT ![q] = c.status]
        /\ yields' = [yields EXCEPT ![q] = IF c.status = "ok" THEN @ + 1 ELSE @]
  /\ UNCHANGED <<source, pp_size, input_pp_rank, output_pp_rank, group_rank, input_keys,
                 micro_batch_size, sequence_length, row_length, columns, seed, dp_rank>>
  /\ UNCHANGED nonRouterVars

(* --------------------------- specifications --------------------------- *)
DistributedBackend == {"gloo", "mpi", "nccl"}
NoArray == [shape |-> <<>>, data |-> <<>>]

\* no grid of members runs sanity_check_dataloader
GroupIdle ==
  /\ grp_pp_rank = 0 /\ grp_input_pp_rank = 0 /\ grp_output_pp_rank = 0 /\ grp_ignore = FALSE
  /\ grp_n = 0 /\ grp_batch = <<>> /\ grp_calls = <<>> /\ grp_err = <<>>

\* no sanity_check_dataloader generator is running
SanityIdle ==
  /\ sc_ignore = FALSE /\ sc_dp_rank = 0 /\ sc_tp_rank = 0 /\ sc_n = 0 /\ sc_yielded = 0
  /\ sc_in = <<>> /\ sc_dp0 = <<>> /\ sc_tp0 = <<>> /\ sc_out = <<>>
  /\ sc_calls = <<>> /\ sc_err = <<>>
  /\ GroupIdle

\* no OptimizerFromGradientAccumulator is being constructed or used
OptIdle ==
  /\ opt_pc = "" /\ opt_input = <<>> /\ opt_last = "" /\ opt_in = <<>> /\ opt_status = ""
  /\ opt_ret = <<>> /\ opt_calls = <<>> /\ opt_arg = <<>> /\ base_state = <<>> /\ acc_state = <<>>
  /\ opt_sd = <<>> /\ rt_stage = 0 /\ rt_base = <<>> /\ rt_acc = <<>>

\* no second run of the sampler is in use
TrainSamplerIdle ==
  /\ ts_rank = 0 /\ ts_consumed = 0 /\ ts_kind = "" /\ ts_len = 0 /\ ts_inner_len = 0 /\ ts_rng = 0
  /\ ts_inner = <<>> /\ ts_batches = <<>> /\ ts_passes = 0

\* no dataset mix is being loaded
MixIdle ==
  /\ mix_fracs = <<>> /\ mix_splits = <<>> /\ mix_pc = "" /\ mix_status = ""
  /\ mix_result = {} /\ mix_loaded = <<>>

\* no optimizer is being saved
SaveIdle ==
  /\ sv_pp_size = 0 /\ sv_dp_size = 0 /\ sv_tp_size = 0 /\ sv_is_zero = FALSE
  /\ sv_called = {} /\ sv_written = <<>>

\* no sampler is in use
SamplerIdle ==
  /\ sm_lengths = <<>> /\ sm_weights = <<>> /\ sm_num_replicas = 0 /\ sm_rank = 0
  /\ sm_batch_size = 0 /\ sm_rng = 0 /\ sm_drawn = <<>> /\ sm_batches = <<>> /\ sm_passes = 0
  /\ TrainSamplerIdle

\* everything but the ParallelContext and the routing is idle
RestIdle == SanityIdle /\ OptIdle /\ SamplerIdle /\ SaveIdle /\ MixIdle

\* no pipeline group is routing
RouterIdle ==
  /\ source = "" /\ pp_size = 0 /\ input_pp_rank = 0 /\ output_pp_rank = 0
  /\ group_rank = 0 /\ input_keys = {} /\ micro_batch_size = 0 /\ sequence_length = 0
  /\ row_length = 0 /\ columns = <<>> /\ seed = 0 /\ dp_rank = 0
  /\ batch = <<>> /\ bstatus = <<>> /\ yields = <<>>

\* no ParallelContext is under construction
TopoIdle ==
  /\ world_size = 0 /\ tp = 0 /\ dp = 0 /\ pp = 0 /\ backend = "" /\ dist_available = FALSE
  /\ procs = {} /\ pc = <<>> /\ err = <<>> /\ dist_initialized = <<>> /\ log = <<>>
  /\ world_pg = <<>> /\ tp_pg = <<>> /\ dp_pg = <<>> /\ pp_pg = <<>>
  /\ world_rank_matrix = <<>> /\ world_ranks_to_pg = <<>> /\ groups = <<>> /\ ret = <<>>

\* every component but `component` is idle
IdleExcept(component) ==
  /\ TopoIdle
  /\ RouterIdle
  /\ (component = "sanity" \/ SanityIdle)
  /\ (component = "opt" \/ OptIdle)
  /\ (component = "sampler" \/ SamplerIdle)
  /\ (component = "save" \/ SaveIdle)
  /\ (component = "mix" \/ MixIdle)

InitCommon ==
  /\ world_size \in 1..MaxWorld
  /\ tp \in 1..MaxAxis
  /\ dp \in 1..MaxAxis
  /\ pp \in 1..MaxAxis
  /\ backend \in DistributedBackend
  /\ dist_available \in BOOLEAN
  /\ pc = [r \in procs |-> "new"]
  /\ err = [r \in procs |-> ""]
  /\ \E b \in BOOLEAN : dist_initialized = [r \in procs |-> b]
  /\ log = [r \in procs |-> <<>>]
  /\ world_pg = [r \in procs |-> Unset]
  /\ tp_pg = [r \in procs |-> Unset]
  /\ dp_pg = [r \in procs |-> Unset]
  /\ pp_pg = [r \in procs |-> Unset]
  /\ world_rank_matrix = [r \in procs |-> NoArray]
  /\ world_ranks_to_pg = [r \in procs |-> EmptyMap]
  /\ groups = [r \in procs |-> <<>>]
  /\ ret = [r \in procs |-> NoOutcome]
  /\ RouterIdle
  /\ RestIdle

\* Construction of the context on the ranks of the job.  The ranks share no
\* state, so the model follows any one rank or any pair of ranks {a, b}.
Init ==
  /\ procs \in {{a, b} : a \in 0..(MaxWorld - 1), b \in 0..(MaxWorld - 1)}
  /\ InitCommon
  /\ procs \subseteq 0..(world_size - 1)

Construct(r) ==
  \/ InitValidate(r)
  \/ set_device(r)
  \/ init_global_dist(r)
  \/ init_parallel_groups(r)
  \/ InitFinish(r)

Next == \E r \in procs : Construct(r)

vars == <<topoVars, routerVars, sanityVars, optVars, samplerVars, saveVars, mixVars>>

Spec == Init /\ [][Next]_vars

\* life of one context: construction, registry calls, teardown
InitLife ==
  /\ procs \in {{r} : r \in 0..(MaxWorld - 1)}
  /\ InitCommon
  /\ procs \subseteq 0..(world_size - 1)

NextLife ==
  \E r \in procs :
    \/ Construct(r)
    \/ \E mode \in ParallelMode : add_group(r, mode)
    \/ \E local_rank \in 0..(world_size - 1), mode \in ParallelMode : get_3d_ranks(r, local_rank, mode)
    \/ destroy(r)

SpecLife == InitLife /\ [][NextLife]_vars

\* One pipeline group whose members each build micro-batches with the same
\* producer and the same arguments.
FieldNames == {"input_ids", "input_mask", "label_ids", "label_mask"}

InitRouter ==
  /\ TopoIdle /\ RestIdle
  /\ pp_size \in 1..MaxPP
  /\ dp_rank \in 0..(MaxAxis - 1)
  /\ batch = [q \in 0..(pp_size - 1) |-> NoBatch]
  /\ bstatus = [q \in 0..(pp_size - 1) |-> ""]
  /\ yields = [q \in 0..(pp_size - 1) |-> 0]
  /\ \/ /\ source = "set_tensor_pointers"
        /\ group_rank \in 0..(MaxPP - 1)
        /\ input_keys \in SUBSET {"input_ids", "input_mask"}
        /\ input_pp_rank = 0 /\ output_pp_rank = 0 /\ micro_batch_size = 0
        /\ sequence_length = 0 /\ row_length = 0 /\ columns = <<>> /\ seed = 0
     \/ /\ source = "dummy_infinite_data_generator"
        /\ input_pp_rank \in 0..(MaxPP - 1)
        /\ output_pp_rank \in 0..(MaxPP - 1)
        /\ micro_batch_size \in 1..MaxBatch
        /\ sequence_length \in 1..MaxSeq
        /\ seed \in 1..MaxSeed
        /\ group_rank = 0 /\ input_keys = {} /\ row_length = 0 /\ columns = <<>>
     \/ /\ source = "DataCollatorForCLM"
        /\ input_pp_rank \in 0..(MaxPP - 1)
        /\ output_pp_rank \in 0..(MaxPP - 1)
        /\ micro_batch_size \in 1..MaxBatch
        /\ sequence_length \in 1..MaxSeq
        /\ row_length \in 1..(MaxSeq + 1)
        /\ columns \in {<<"input_ids">>, <<"input_ids", "labels">>}
        /\ group_rank = 0 /\ input_keys = {} /\ seed = 0

NextRouter ==
  \E q \in 0..(pp_size - 1) :
    \/ SetTensorPointers(q)
    \/ DummyNext(q)
    \/ Collate(q)

SpecRouter == InitRouter /\ [][NextRouter]_vars

(* ---------------------- sanity_check_dataloader ----------------------- *)
\* The field names of the micro-batches, in ascending string order: the order
\* of sorted(micro_batch.items(), key=lambda x: x[0])
KeyOrder == <<"input_ids", "input_mask", "label_ids", "label_mask">>
sorted_items_descending(mb) ==
  LET asc == SelectSeq(KeyOrder, LAMBDA k : k \in DOMAIN mb)
  IN [i \in 1..Len(asc) |-> asc[Len(asc) + 1 - i]]
sorted_items(mb) == SelectSeq(KeyOrder, LAMBDA k : k \in DOMAIN mb)

\* v.to("cuda", memory_format=torch.contiguous_format): a tensor of the same values
to_cuda(v) == Tensor(v.data)

\* variant of micro_batch_of that moves every value, placeholders included
micro_batch_of_moves_all(b) == [k \in DOMAIN b |-> to_cuda(b[k])]

\* the dict comprehension of lines 38-41
micro_batch_of(b) ==
  [k \in DOMAIN b |-> IF isinstance(b[k], "TensorPointer") THEN b[k] ELSE to_cuda(b[k])]

\* "mask" in key
contains_mask(key) == key \in {"input_mask", "label_mask"}

\* dist.broadcast(reference_tensor, src=rank 0 of pg, group=pg) made for field key
BroadcastCall(pg, key) == Call("broadcast", <<pg, key>>)

\* assert_tensor_synced_across_pg(tensor, pg, msg): TRUE when the assertion
\* fails, i.e. when tensor is not bit-identical to the tensor of rank 0 of pg
assert_tensor_synced_across_pg(tensor, reference_tensor) == tensor.data # reference_tensor.data

\* with assert_fail_except_rank_with(AssertionError, rank_exception=0, pg):
\* TRUE when the with statement raises, given whether its body raised
\* AssertionError on the rank whose rank in pg is current_rank
assert_fail_except_rank_with(body_raised, rank_exception, current_rank) ==
  IF body_raised THEN current_rank = rank_exception ELSE current_rank # rank_exception

\* An exception leaving the generator.  key is the field name that the
\* message is built from ("" when the message is not built from a field name).
Error(exc, check, key) == [exc |-> exc, check |-> check, key |-> key]
NoError == Error("", "", "")

\* variant of dp_skips without the exemption of masks
dp_skips_pointers_only(key, value) == isinstance(value, "TensorPointer")

\* the two `continue` of the data-parallel loop (lines 46-51)
dp_skips(key, value) == isinstance(value, "TensorPointer") \/ contains_mask(key)

\* variant of tp_skips that exempts masks as the data-parallel loop does
tp_skips_masks(key, value) == isinstance(value, "TensorPointer") \/ contains_mask(key)

\* the `continue` of the tensor-parallel loop (lines 58-59)
tp_skips(key, value) == isinstance(value, "TensorPointer")

\* the data-parallel loop (lines 45-54) from its i-th item on
RECURSIVE dp_loop(_, _, _, _, _, _)
dp_loop(items, i, mb, dp0, current_rank, calls) ==
  IF i > Len(items) THEN [calls |-> calls, err |-> NoError]
  ELSE LET key == items[i]
           value == mb[key]
       IN IF dp_skips(key, value) THEN dp_loop(items, i + 1, mb, dp0, current_rank, calls)
          ELSE LET body_raised == assert_tensor_synced_across_pg(value, dp0[key])
                   calls2 == Append(calls, BroadcastCall("dp_pg", key))
               IN IF assert_fail_except_rank_with(body_raised, 0, current_rank)
                    THEN [calls |-> calls2, err |-> Error("AssertionError", "DP", "")]
                    ELSE dp_loop(items, i + 1, mb, dp0, current_rank, calls2)

\* the tensor-parallel loop (lines 57-64) from its i-th item on
RECURSIVE tp_loop(_, _, _, _, _)
tp_loop(items, i, mb, tp0, calls) ==
  IF i > Len(items) THEN [calls |-> calls, err |-> NoError]
  ELSE LET key == items[i]
           value == mb[key]
       IN IF tp_skips(key, value) THEN tp_loop(items, i + 1, mb, tp0, calls)
          ELSE LET calls2 == Append(calls, BroadcastCall("tp_pg", key))
               IN IF assert_tensor_synced_across_pg(value, tp0[key])
                    THEN [calls |-> calls2, err |-> Error("AssertionError", "TP", key)]
                    ELSE tp_loop(items, i + 1, mb, tp0, calls2)

\* the body of `if not config.general.ignore_sanity_checks` (lines 43-64)
sanity_checks(mb, dp0, tp0, dprank, ignore) ==
  IF ignore THEN [calls |-> <<>>, err |-> NoError]
  ELSE LET d == dp_loop(sorted_items(mb), 1, mb, dp0, dprank, <<>>)
       IN IF d.err # NoError THEN d
          ELSE tp_loop(sorted_items(mb), 1, mb, tp0, d.calls)

\* The n-th batch of the dataloader of a rank whose pipeline stage holds the
\* inputs (in_real) and/or the labels (lab_real); other fields are
\* placeholders for the stage that owns them.
loader_batch(n, in_real, lab_real) ==
  [k \in {KeyOrder[i] : i \in 1..Len(KeyOrder)} |->
     IF k \in {"input_ids", "input_mask"}
       THEN IF in_real THEN Tensor(<< <<n, 0>> >>) ELSE TensorPointer(0)
       ELSE IF lab_real THEN Tensor(<< <<n, 0>> >>) ELSE TensorPointer(1)]

\* What rank 0 of a group holds at the same iteration: the same placeholders
\* (same pipeline stage) and, for each real field, the same tensor (k \in same)
\* or another one.
peer_batch(b, same) ==
  [k \in DOMAIN b |->
     IF isinstance(b[k], "TensorPointer") \/ k \in same THEN b[k]
     ELSE Tensor(<< <<b[k].data[1][1], 1>> >>)]

\* one iteration of `for batch in dataloader` (lines 37-71)
SanityNext ==
  /\ sc_err = NoError
  /\ sc_n < MaxLoader
  /\ \E in_real \in BOOLEAN, lab_real \in BOOLEAN,
        dp_same \in SUBSET {KeyOrder[i] : i \in 1..Len(KeyOrder)},
        tp_same \in SUBSET {KeyOrder[i] : i \in 1..Len(KeyOrder)} :
       LET b == loader_batch(sc_n + 1, in_real, lab_real)
           real == {k \in DOMAIN b : ~isinstance(b[k], "TensorPointer")}
           mb == micro_batch_of(b)
           d0 == IF sc_dp_rank = 0 THEN mb ELSE micro_batch_of(peer_batch(b, dp_same))
           t0 == IF sc_tp_rank = 0 THEN mb ELSE micro_batch_of(peer_batch(b, tp_same))
           res == sanity_checks(mb, d0, t0, sc_dp_rank, sc_ignore)
       IN /\ dp_same \subseteq real /\ tp_same \subseteq real
          /\ (sc_dp_rank = 0 => dp_same = real)
          /\ (sc_tp_rank = 0 => tp_same = real)
          /\ sc_in' = b
          /\ sc_dp0' = d0
          /\ sc_tp0' = t0
          /\ sc_n' = sc_n + 1
          /\ sc_calls' = res.calls
          /\ sc_err' = res.err
          /\ sc_out' = IF res.err = NoError THEN mb ELSE sc_out
          /\ sc_yielded' = IF res.err = NoError THEN sc_yielded + 1 ELSE sc_yielded
  /\ UNCHANGED <<sc_ignore, sc_dp_rank, sc_tp_rank>>
  /\ UNCHANGED groupVars
  /\ UNCHANGED nonSanityVars

InitSanity ==
  /\ IdleExcept("sanity")
  /\ sc_ignore \in BOOLEAN
  /\ sc_dp_rank \in 0..MaxGroupRank
  /\ sc_tp_rank \in 0..MaxGroupRank
  /\ sc_n = 0 /\ sc_yielded = 0
  /\ sc_in = NoBatch /\ sc_dp0 = NoBatch /\ sc_tp0 = NoBatch /\ sc_out = NoBatch
  /\ sc_calls = <<>> /\ sc_err = NoError
  /\ GroupIdle

NextSanity == SanityNext

SpecSanity == InitSanity /\ [][NextSanity]_vars

(* ------------- sanity_check_dataloader on the members of a group ------------- *)
\* The ranks of one pipeline stage: member <<a, b>> has rank a in its
\* data-parallel group and rank b in its tensor-parallel group.  The members
\* with the same b form a data-parallel group, those with the same a a
\* tensor-parallel group.
GridMembers == (0..MaxGroupRank) \X (0..MaxGroupRank)

\* The n-th batch of the dataloader of a member on pipeline rank
\* current_pp_rank, as the dummy generator (lines 190-227) and the collator
\* (lines 327-383) build it: the inputs are tensors on input_pp_rank and
\* placeholders elsewhere, the labels are tensors on output_pp_rank and
\* placeholders elsewhere; v tells the data of one member from another's.
member_batch(n, v, current_pp_rank, in_rank, out_rank) ==
  LET t == Tensor(<< <<n, v>> >>)
      inputs == set_tensor_pointers([k \in {"input_ids", "input_mask"} |-> t], current_pp_rank, in_rank)
      labels == set_tensor_pointers([k \in {"label_ids", "label_mask"} |-> t], current_pp_rank, out_rank)
  IN [k \in {"input_ids", "input_mask", "label_ids", "label_mask"} |->
        IF k \in DOMAIN inputs THEN inputs[k] ELSE labels[k]]

\* every member takes a batch from its dataloader and runs lines 38-71 on
\* it; the reference tensors of a member are those of rank 0 of its
\* data-parallel group and of rank 0 of its tensor-parallel group
GroupSanityNext ==
  /\ grp_n = 0
  /\ \E data \in [GridMembers -> {0, 1}] :
       LET b == [x \in GridMembers |->
                   member_batch(grp_n + 1, data[x], grp_pp_rank, grp_input_pp_rank, grp_output_pp_rank)]
           mb == [x \in GridMembers |-> micro_batch_of(b[x])]
           res == [x \in GridMembers |->
                     sanity_checks(mb[x], mb[<<0, x[2]>>], mb[<<x[1], 0>>], x[1], grp_ignore)]
       IN /\ grp_batch' = b
          /\ grp_calls' = [x \in GridMembers |-> res[x].calls]
          /\ grp_err' = [x \in GridMembers |-> res[x].err]
  /\ grp_n' = grp_n + 1
  /\ UNCHANGED <<grp_pp_rank, grp_input_pp_rank, grp_output_pp_rank, grp_ignore>>
  /\ UNCHANGED <<sc_ignore, sc_dp_rank, sc_tp_rank, sc_n, sc_yielded, sc_in, sc_dp0, sc_tp0,
                 sc_out, sc_calls, sc_err>>
  /\ UNCHANGED nonSanityVars

InitSanityGroup ==
  /\ IdleExcept("sanity")
  /\ sc_ignore = FALSE /\ sc_dp_rank = 0 /\ sc_tp_rank = 0 /\ sc_n = 0 /\ sc_yielded = 0
  /\ sc_in = <<>> /\ sc_dp0 = <<>> /\ sc_tp0 = <<>> /\ sc_out = <<>>
  /\ sc_calls = <<>> /\ sc_err = <<>>
  /\ \E pps \in 1..MaxPP :
       /\ grp_pp_rank \in 0..(pps - 1)
       /\ grp_input_pp_rank \in 0..(pps - 1)
       /\ grp_output_pp_rank \in 0..(pps - 1)
  /\ grp_ignore \in BOOLEAN
  /\ grp_n = 0
  /\ grp_batch = [x \in GridMembers |-> NoBatch]
  /\ grp_calls = [x \in GridMembers |-> <<>>]
  /\ grp_err = [x \in GridMembers |-> NoError]

NextSanityGroup == GroupSanityNext

SpecSanityGroup == InitSanityGroup /\ [][NextSanityGroup]_vars

(* ----------------- OptimizerFromGradientAccumulator ------------------- *)
\* A (name, param) pair, and a parameter group: a dict with the key
\* "named_params" and the other options as a set of <<key, value>> items.
Param(kind, name, g, pos) == [kind |-> kind, name |-> name, g |-> g, pos |-> pos]
NamedParam(name, param) == [type |-> "tuple", name |-> name, param |-> param, named_params |-> <<>>, options |-> {}]
ParamGroup(named_params, options) ==
  [type |-> "dict", name |-> "", param |-> Param("", "", 0, 0), named_params |-> named_params, options |-> options]

\* lines 19-21
named_param_groups_of(named_params_or_groups) ==
  IF Len(named_params_or_groups) = 0 \/ ~isinstance(named_params_or_groups[1], "dict")
    THEN << ParamGroup(named_params_or_groups, {}) >>
    ELSE named_params_or_groups

\* variant of already_named in which no name counts as taken
already_named_never(name, name_to_param) == FALSE

\* name in name_to_param (line 26)
already_named(name, name_to_param) == name \in dict_keys(name_to_param)

\* the inner loop of lines 25-29 over one group, from its j-th pair on
RECURSIVE names_of_group(_, _, _)
names_of_group(named_params, j, name_to_param) ==
  IF j > Len(named_params) THEN [status |-> "ok", name |-> "", name_to_param |-> name_to_param]
  ELSE IF already_named(named_params[j].name, name_to_param)
         THEN [status |-> "ValueError", name |-> named_params[j].name, name_to_param |-> name_to_param]
         ELSE names_of_group(named_params, j + 1,
                             dict_set(name_to_param, named_params[j].name, named_params[j].param))

\* the outer loop of lines 24-29, from the i-th group on
RECURSIVE names_of_groups(_, _, _)
names_of_groups(named_param_groups, i, name_to_param) ==
  IF i > Len(named_param_groups) THEN [status |-> "ok", name |-> "", name_to_param |-> name_to_param]
  ELSE LET g == names_of_group(named_param_groups[i].named_params, 1, name_to_param)
       IN IF g.status # "ok" THEN g
          ELSE names_of_groups(named_param_groups, i + 1, g.name_to_param)

\* gradient_accumulator.get_parameter_for_optimizer(name)
get_parameter_for_optimizer(name) == Param("optimizer_view", name, 0, 0)

\* variant of converted_named_params that hands over the original parameters
converted_named_params_original(named_params) ==
  [j \in DOMAIN named_params |-> NamedParam(named_params[j].name, named_params[j].param)]

\* the inner list comprehension of lines 39-42
converted_named_params(named_params) ==
  [j \in DOMAIN named_params |->
     NamedParam(named_params[j].name, get_parameter_for_optimizer(named_params[j].name))]

\* lines 36-45
converted_named_param_group(named_param_groups) ==
  [i \in DOMAIN named_param_groups |->
     ParamGroup(converted_named_params(named_param_groups[i].named_params),
                named_param_groups[i].options)]

\* the get_parameter_for_optimizer calls made while lines 36-45 are evaluated
RECURSIVE view_calls(_, _)
view_calls(named_param_groups, i) ==
  IF i > Len(named_param_groups) THEN <<>>
  ELSE [j \in DOMAIN named_param_groups[i].named_params |->
          Call("get_parameter_for_optimizer", <<named_param_groups[i].named_params[j].name>>)]
       \o view_calls(named_param_groups, i + 1)

\* __init__ (lines 19-48): the calls it makes on its collaborators and how it ends
construct_outcome(named_params_or_groups) ==
  LET named_param_groups == named_param_groups_of(named_params_or_groups)
      n == names_of_groups(named_param_groups, 1, <<>>)
  IN IF n.status # "ok"
       THEN [status |-> "ValueError", name |-> n.name, calls |-> <<>>]
       ELSE [status |-> "ok", name |-> "",
             calls |-> << Call("gradient_accumulator_builder", n.name_to_param) >>
                       \o view_calls(named_param_groups, 1)
                       \o << Call("optimizer_builder", converted_named_param_group(named_param_groups)) >>]

\* State dicts are mappings from string keys to values; a value is a tuple of
\* integers.  The base optimizer's state is <<number of steps>> under each of
\* its keys, the accumulator's state is <<number of steps, state of the
\* gradient buffers (0 untouched, 1 zeroed, 2 set to None)>>.
map_set(m, k, v) == [x \in DOMAIN m \cup {k} |-> IF x = k THEN v ELSE m[x]]
map_del(m, k) == [x \in DOMAIN m \ {k} |-> m[x]]
None == <<>>

\* the wrapped optimizer (self.optimizer) and the accumulator
optimizer_step(bs) == [k \in DOMAIN bs |-> << bs[k][1] + 1 >>]
optimizer_loss(bs, closure) == IF closure THEN << bs[CHOOSE k \in DOMAIN bs : TRUE][1] >> ELSE None
optimizer_state_dict(bs) == bs
optimizer_load_state_dict(state_dict) == state_dict
accumulator_step(acc) == << acc[1] + 1, acc[2] >>
accumulator_zero_grad(acc, set_to_none) == << acc[1], IF set_to_none THEN 2 ELSE 1 >>
accumulator_state_dict(acc) == acc
accumulator_load_state_dict(state_dict) == state_dict

\* result of a method: how it ends, what it returns, the calls it made on
\* the wrapped optimizer and on the accumulator, their states afterwards and
\* the caller's mapping afterwards
MethodOutcome(status, r, calls, bs, acc, arg) ==
  [status |-> status, ret |-> r, calls |-> calls, base |-> bs, acc |-> acc, arg |-> arg]

\* variant of step_outcome that advances the accumulator first
step_outcome_accumulator_first(bs, acc, closure) ==
  MethodOutcome("ok", optimizer_loss(bs, closure),
                << Call("gradient_accumulator.step", <<>>), Call("optimizer.step", <<closure>>) >>,
                optimizer_step(bs), accumulator_step(acc), None)

\* step (lines 50-53)
step_outcome(bs, acc, closure) ==
  MethodOutcome("ok", optimizer_loss(bs, closure),
                << Call("optimizer.step", <<closure>>), Call("gradient_accumulator.step", <<>>) >>,
                optimizer_step(bs), accumulator_step(acc), None)

\* zero_grad (lines 55-57)
zero_grad_outcome(bs, acc, set_to_none) ==
  MethodOutcome("ok", None,
                << Call("optimizer.zero_grad", <<set_to_none>>),
                   Call("gradient_accumulator.zero_grad", <<set_to_none>>) >>,
                bs, accumulator_zero_grad(acc, set_to_none), None)

\* variant of state_dict_outcome that saves the state of a new accumulator
state_dict_outcome_new_accumulator(bs, acc) ==
  LET state_dict == optimizer_state_dict(bs)
  IN IF "gradient_accumulator" \in DOMAIN state_dict
       THEN MethodOutcome("AssertionError", None, << Call("optimizer.state_dict", <<>>) >>, bs, acc, None)
       ELSE MethodOutcome("ok",
                          map_set(state_dict, "gradient_accumulator", accumulator_state_dict(<<0, 0>>)),
                          << Call("optimizer.state_dict", <<>>),
                             Call("gradient_accumulator.state_dict", <<>>) >>,
                          bs, acc, None)

\* variant of state_dict_outcome without the assertion of line 66
state_dict_outcome_no_assert(bs, acc) ==
  MethodOutcome("ok", map_set(optimizer_state_dict(bs), "gradient_accumulator", accumulator_state_dict(acc)),
                << Call("optimizer.state_dict", <<>>), Call("gradient_accumulator.state_dict", <<>>) >>,
                bs, acc, None)

\* state_dict (lines 63-68)
state_dict_outcome(bs, acc) ==
  LET state_dict == optimizer_state_dict(bs)
  IN IF "gradient_accumulator" \in DOMAIN state_dict
       THEN MethodOutcome("AssertionError", None, << Call("optimizer.state_dict", <<>>) >>, bs, acc, None)
       ELSE MethodOutcome("ok",
                          map_set(state_dict, "gradient_accumulator", accumulator_state_dict(acc)),
                          << Call("optimizer.state_dict", <<>>),
                             Call("gradient_accumulator.state_dict", <<>>) >>,
                          bs, acc, None)

\* variant of pop that reads the entry and leaves it in the mapping
pop_keeps_key(m, k) ==
  IF k \in DOMAIN m THEN [status |-> "ok", value |-> m[k], rest |-> m]
  ELSE [status |-> "KeyError", value |-> None, rest |-> m]

\* dict.pop(k): the value removed and the mapping afterwards
pop(m, k) ==
  IF k \in DOMAIN m THEN [status |-> "ok", value |-> m[k], rest |-> map_del(m, k)]
  ELSE [status |-> "KeyError", value |-> None, rest |-> m]

\* variant of load_state_dict_outcome that goes on without the accumulator's
\* entry when the mapping has none
load_state_dict_outcome_tolerant(bs, acc, state_dict) ==
  LET p == pop(state_dict, "gradient_accumulator")
  IN IF p.status # "ok"
     THEN MethodOutcome("ok", None, << Call("optimizer.load_state_dict", p.rest) >>,
                        optimizer_load_state_dict(p.rest), acc, p.rest)
     ELSE MethodOutcome("ok", None,
                        << Call("optimizer.load_state_dict", p.rest),
                           Call("gradient_accumulator.load_state_dict", p.value) >>,
                        optimizer_load_state_dict(p.rest),
                        accumulator_load_state_dict(p.value), p.rest)

\* load_state_dict (lines 70-73)
load_state_dict_outcome(bs, acc, state_dict) ==
  LET p == pop(state_dict, "gradient_accumulator")
  IN IF p.status # "ok" THEN MethodOutcome("KeyError", None, <<>>, bs, acc, p.rest)
     ELSE MethodOutcome("ok", None,
                        << Call("optimizer.load_state_dict", p.rest),
                           Call("gradient_accumulator.load_state_dict", p.value) >>,
                        optimizer_load_state_dict(p.rest),
                        accumulator_load_state_dict(p.value), p.rest)

\* a call of method `name` with argument arg that ends with outcome o
OptMethod(name, arg, o) ==
  /\ opt_pc = "built"
  /\ opt_last' = name
  /\ opt_in' = arg
  /\ opt_status' = o.status
  /\ opt_ret' = o.ret
  /\ opt_calls' = o.calls
  /\ opt_arg' = o.arg
  /\ base_state' = o.base
  /\ acc_state' = o.acc
  /\ UNCHANGED <<opt_pc, opt_input>>
  /\ UNCHANGED nonOptVars

\* OptimizerFromGradientAccumulator(gradient_accumulator_builder, opt_input, optimizer_builder)
OptConstruct ==
  /\ opt_pc = "new"
  /\ LET o == construct_outcome(opt_input)
     IN /\ opt_pc' = IF o.status = "ok" THEN "built" ELSE "failed"
        /\ opt_status' = o.status
        /\ opt_ret' = << o.name >>
        /\ opt_calls' = o.calls
        /\ base_state' = IF o.status = "ok" THEN [k \in {"state"} |-> <<0>>] ELSE base_state
        /\ acc_state' = IF o.status = "ok" THEN <<0, 0>> ELSE acc_state
  /\ opt_last' = "__init__"
  /\ UNCHANGED <<opt_input, opt_in, opt_arg, opt_sd, rt_stage, rt_base, rt_acc>>
  /\ UNCHANGED nonOptVars

\* optimizer.step(closure)
OptStep(closure) ==
  /\ \A k \in DOMAIN base_state : base_state[k][1] < MaxSteps
  /\ acc_state[1] < MaxSteps
  /\ OptMethod("step", <<closure>>, step_outcome(base_state, acc_state, closure))
  /\ rt_stage' = 0
  /\ UNCHANGED <<opt_sd, rt_base, rt_acc>>

\* optimizer.zero_grad(set_to_none)
OptZeroGrad(set_to_none) ==
  /\ OptMethod("zero_grad", <<set_to_none>>, zero_grad_outcome(base_state, acc_state, set_to_none))
  /\ rt_stage' = 0
  /\ UNCHANGED <<opt_sd, rt_base, rt_acc>>

\* optimizer.state_dict().  rt_stage follows a round trip: 1 after a
\* state_dict() that returned opt_sd in the states rt_base / rt_acc, 2 after
\* load_state_dict of that mapping, 3 after the state_dict() that follows.
OptStateDict ==
  LET o == state_dict_outcome(base_state, acc_state)
  IN /\ OptMethod("state_dict", <<>>, o)
     /\ IF o.status # "ok"
          THEN rt_stage' = 0 /\ UNCHANGED <<opt_sd, rt_base, rt_acc>>
          ELSE IF rt_stage = 2
                 THEN rt_stage' = 3 /\ UNCHANGED <<opt_sd, rt_base, rt_acc>>
                 ELSE rt_stage' = 1 /\ opt_sd' = o.ret /\ rt_base' = base_state /\ rt_acc' = acc_state

\* mappings a caller may hand to load_state_dict besides a returned state dict
FreshStateDicts ==
  { [k \in {"state"} |-> <<0>>],
    [k \in {"state", "gradient_accumulator"} |-> IF k = "state" THEN <<0>> ELSE <<1, 1>>],
    [k \in {"state", "param_groups", "gradient_accumulator"} |->
        IF k = "gradient_accumulator" THEN <<0, 2>> ELSE <<1>>] }

\* optimizer.load_state_dict(m): m is the state dict returned last, the
\* mapping a previous load_state_dict left to its caller, or a fresh mapping
OptLoadStateDict ==
  \E src \in {"returned", "reused", "fresh"} :
    \E m \in (CASE src = "returned" -> IF rt_stage = 1 THEN {opt_sd} ELSE {}
                [] src = "reused" -> IF opt_last = "load_state_dict" THEN {opt_arg} ELSE {}
                [] OTHER -> FreshStateDicts) :
      LET o == load_state_dict_outcome(base_state, acc_state, m)
      IN /\ OptMethod("load_state_dict", m, o)
         /\ rt_stage' = IF src = "returned" /\ o.status = "ok" THEN 2 ELSE 0
         /\ UNCHANGED <<opt_sd, rt_base, rt_acc>>

\* names and shapes of the construction arguments
ParamNames == {"w", "b"}
NamedParamLists(g) ==
  UNION { { [j \in 1..n |-> NamedParam(f[j], Param("param", f[j], g, j))] : f \in [1..n -> ParamNames] }
          : n \in 0..MaxParams }
ParamGroups(g) ==
  { ParamGroup(l, o) : l \in NamedParamLists(g), o \in {{}, {<<"lr", g>>}} }
GroupLists ==
  UNION { { f \in [1..n -> UNION {ParamGroups(g) : g \in 1..MaxGroups}] :
              \A i \in 1..n : \A j \in DOMAIN f[i].named_params : f[i].named_params[j].param.g = i }
          : n \in 1..MaxGroups }

InitOptBuild ==
  /\ IdleExcept("opt")
  /\ opt_pc = "new"
  /\ opt_input \in NamedParamLists(1) \cup GroupLists
  /\ opt_last = "" /\ opt_in = <<>> /\ opt_status = "" /\ opt_ret = <<>> /\ opt_calls = <<>>
  /\ opt_arg = <<>> /\ base_state = <<>> /\ acc_state = <<>>
  /\ opt_sd = <<>> /\ rt_stage = 0 /\ rt_base = <<>> /\ rt_acc = <<>>

NextOptBuild == OptConstruct

SpecOptBuild == InitOptBuild /\ [][NextOptBuild]_vars

\* state dict keys of wrapped optimizers; the last one is an optimizer whose
\* own state dict already has the key "gradient_accumulator"
BaseKeySets == { {"state"}, {"state", "param_groups"}, {"state", "gradient_accumulator"} }

\* the optimizer right after a successful construction
InitOpt ==
  /\ IdleExcept("opt")
  /\ opt_pc = "built"
  /\ opt_input = << NamedParam("w", Param("param", "w", 1, 1)) >>
  /\ opt_last = "__init__" /\ opt_in = <<>> /\ opt_status = "ok" /\ opt_ret = << "" >>
  /\ opt_calls = construct_outcome(opt_input).calls
  /\ opt_arg = <<>>
  /\ \E ks \in BaseKeySets : base_state = [k \in ks |-> <<0>>]
  /\ acc_state = <<0, 0>>
  /\ opt_sd = <<>> /\ rt_stage = 0 /\ rt_base = <<>> /\ rt_acc = <<>>

NextOpt ==
  \/ \E closure \in BOOLEAN : OptStep(closure)
  \/ \E set_to_none \in BOOLEAN : OptZeroGrad(set_to_none)
  \/ OptStateDict
  \/ OptLoadStateDict

SpecOpt == InitOpt /\ [][NextOpt]_vars

(* -------------------- DistributedSamplerForDoReMi --------------------- *)
\* torch float32 arithmetic.  A positive float32 is [m |-> mantissa,
\* e |-> exponent] with value m / 2^e and 2^23 <= m <= 2^24.
Pow2(n) == 2 ^ n
RECURSIVE f32_exponent(_, _, _)
f32_exponent(w, s, e) == IF w * Pow2(e) >= Pow2(23) * s THEN e ELSE f32_exponent(w, s, e + 1)

\* w / s for integers 0 < w <= s, rounded to the nearest float32 (ties to even):
\* an element of domain_weights / domain_weights.sum() (line 467)
f32_div(w, s) ==
  LET e == f32_exponent(w, s, 0)
      q == (w * Pow2(e)) \div s
      r == (w * Pow2(e)) % s
      up == 2 * r > s \/ (2 * r = s /\ q % 2 = 1)
  IN [m |-> IF up THEN q + 1 ELSE q, e |-> e]

\* sum of a sequence of integers
RECURSIVE sum(_)
sum(s) == IF Len(s) = 0 THEN 0 ELSE s[1] + sum(Tail(s))

\* int(dataset_partition_size * self.domain_weights[i].item()) (line 484): the
\* float32 weight read as a Python float, the product (exact in double
\* precision for these sizes) truncated
num_samples_of(dataset_partition_size, weights, i) ==
  LET w == f32_div(weights[i], sum(weights))
  IN (dataset_partition_size * w.m) \div Pow2(w.e)

\* The global numpy generator.  Its state is a number; each call uses the
\* state and advances it.  np.random.choice(n, k, replace=False) gives k
\* distinct values of 0..n-1, np.random.shuffle a permutation.
rng_next(rng) == (rng + 1) % MaxRng
random_choice(n, k, rng) == [j \in 1..k |-> (rng + j - 1) % n]
random_shuffle(s, rng) ==
  IF Len(s) = 0 THEN s
  ELSE [j \in 1..Len(s) |-> s[((j - 1 + rng) % Len(s)) + 1]]

\* np.cumsum([0] + lengths[:-1]) (line 479)
offsets_of(lengths) == [i \in DOMAIN lengths |-> sum(SubSeq(lengths, 1, i - 1))]

\* math.ceil(total_samples / self.batch_size) * self.batch_size (lines 470-473)
calculate_total_size_rounded_down(lengths, batch_size) ==
  (sum(lengths) \div batch_size) * batch_size
calculate_total_size(lengths, batch_size) ==
  ((sum(lengths) + batch_size - 1) \div batch_size) * batch_size

\* the loop of lines 481-492 from dataset i on: the indices drawn per
\* dataset, in order, and the state of the generator afterwards
RECURSIVE domain_loop(_, _, _, _, _, _)
domain_loop(lengths, weights, num_replicas, rank, i, rng) ==
  IF i > Len(lengths) THEN [drawn |-> <<>>, rng |-> rng]
  ELSE LET dataset_partition_size == lengths[i] \div num_replicas
           dataset_partition_offsets == rank * dataset_partition_size
           num_samples == num_samples_of(dataset_partition_size, weights, i)
           local_indices == [j \in 1..num_samples |->
                               random_choice(dataset_partition_size, num_samples, rng)[j]
                               + dataset_partition_offsets]
           global_indices == [j \in 1..num_samples |-> local_indices[j] + offsets_of(lengths)[i]]
           rest == domain_loop(lengths, weights, num_replicas, rank, i + 1, rng_next(rng))
       IN [drawn |-> << global_indices >> \o rest.drawn, rng |-> rest.rng]

\* concatenation of a sequence of sequences (domain_indices.extend)
RECURSIVE extend_all(_)
extend_all(ss) == IF Len(ss) = 0 THEN <<>> ELSE ss[1] \o extend_all(Tail(ss))

\* domain_indices[i : i + batch_size] for i in range(0, len, batch_size) (lines 498-499)
batches_of(domain_indices, batch_size) ==
  [b \in 1..((Len(domain_indices) + batch_size - 1) \div batch_size) |->
     SubSeq(domain_indices, (b - 1) * batch_size + 1,
            IF b * batch_size < Len(domain_indices) THEN b * batch_size ELSE Len(domain_indices))]

\* one pass of __iter__ (lines 475-499)
iter_outcome(lengths, weights, num_replicas, rank, batch_size, rng) ==
  LET d == domain_loop(lengths, weights, num_replicas, rank, 1, rng)
      shuffled == random_shuffle(extend_all(d.drawn), d.rng)
      total_size == calculate_total_size(lengths, batch_size)
      domain_indices == SubSeq(shuffled, 1, IF total_size < Len(shuffled) THEN total_size ELSE Len(shuffled))
  IN [drawn |-> d.drawn, batches |-> batches_of(domain_indices, batch_size), rng |-> rng_next(d.rng)]

\* list(iter(sampler)): one pass of the sampler on its rank
SamplerIter ==
  /\ sm_passes < MaxPasses
  /\ LET o == iter_outcome(sm_lengths, sm_weights, sm_num_replicas, sm_rank, sm_batch_size, sm_rng)
     IN /\ sm_drawn' = o.drawn
        /\ sm_batches' = o.batches
        /\ sm_rng' = o.rng
  /\ sm_passes' = sm_passes + 1
  /\ UNCHANGED <<sm_lengths, sm_weights, sm_num_replicas, sm_rank, sm_batch_size>>
  /\ UNCHANGED trainSamplerVars
  /\ UNCHANGED nonSamplerVars

\* domain weights as given (before normalisation), as integer-valued floats
DomainWeights == { <<1>>, <<1, 1>>, <<1, 3>>, <<2, 1>>, <<5, 1>> }

InitSampler ==
  /\ IdleExcept("sampler")
  /\ sm_weights \in DomainWeights
  /\ sm_lengths \in [1..Len(sm_weights) -> 1..MaxLen]
  /\ sm_num_replicas \in 1..MaxReplicas
  /\ sm_rank \in 0..(sm_num_replicas - 1)
  /\ \A i \in DOMAIN sm_lengths : sm_lengths[i] >= sm_num_replicas
  /\ sm_batch_size \in 1..MaxBatch
  /\ sm_rng \in 0..(MaxRng - 1)
  /\ sm_drawn = <<>> /\ sm_batches = <<>> /\ sm_passes = 0
  /\ TrainSamplerIdle

NextSampler == SamplerIter

SpecSampler == InitSampler /\ [][NextSampler]_vars

(* ---------------- _get_train_sampler and SkipBatchSampler ---------------- *)
\* len(sampler) of the DoReMi sampler: the class defines no __len__, so it is
\* DistributedSampler.__len__, self.num_samples, which super().__init__
\* (line 464) computes from len(datasets), the number of datasets:
\* ceil((n - num_replicas) / num_replicas) when drop_last and n is no multiple
\* of num_replicas, ceil(n / num_replicas) otherwise
ceil_div(a, b) == 0 - ((0 - a) \div b)
DistributedSampler_len(n, num_replicas, is_drop_last) ==
  IF is_drop_last /\ n % num_replicas # 0
  THEN ceil_div(n - num_replicas, num_replicas)
  ELSE ceil_div(n, num_replicas)

\* SkipBatchSampler.__init__ (lines 238-241): self.skip_batches
skip_batches_of_undivided(skip_batches, dp_size) == skip_batches
skip_batches_of(skip_batches, dp_size) == skip_batches \div dp_size

\* SkipBatchSampler.__iter__ (lines 243-246): the samples of the wrapped
\* sampler whose index, counted from 0, is at least self.skip_batches
SkipBatchSampler_iter(samples, skip_batches) ==
  SubSeq(samples, skip_batches + 1, Len(samples))

\* SkipBatchSampler.__len__ (lines 251-252)
SkipBatchSampler_len(len_batch_sampler, skip_batches) == len_batch_sampler - skip_batches

\* the sampler _get_train_sampler returns (lines 501-515): its class, what its
\* __len__ returns and what the __len__ of the DoReMi sampler inside returns
get_train_sampler(n_datasets, dp_size, consumed_train_samples, is_drop_last) ==
  LET inner_len == DistributedSampler_len(n_datasets, dp_size, is_drop_last)
  IN IF consumed_train_samples > 0
     THEN [kind |-> "SkipBatchSampler", inner_len |-> inner_len,
           len |-> SkipBatchSampler_len(inner_len, skip_batches_of(consumed_train_samples, dp_size))]
     ELSE [kind |-> "DistributedSamplerForDoReMi", inner_len |-> inner_len, len |-> inner_len]

\* one pass over the sampler _get_train_sampler returned: the batches the
\* DoReMi sampler produced, the batches that reached the caller, the generator
train_sampler_iter_rank_ignored(lengths, weights, dp_size, rank, batch_size, consumed_train_samples, rng) ==
  LET o == iter_outcome(lengths, weights, dp_size, 0, batch_size, rng)
  IN [inner |-> o.batches,
      batches |-> IF consumed_train_samples > 0
                  THEN SkipBatchSampler_iter(o.batches, skip_batches_of(consumed_train_samples, dp_size))
                  ELSE o.batches,
      rng |-> o.rng]
train_sampler_iter(lengths, weights, dp_size, rank, batch_size, consumed_train_samples, rng) ==
  LET o == iter_outcome(lengths, weights, dp_size, rank, batch_size, rng)
  IN [inner |-> o.batches,
      batches |-> IF consumed_train_samples > 0
                  THEN SkipBatchSampler_iter(o.batches, skip_batches_of(consumed_train_samples, dp_size))
                  ELSE o.batches,
      rng |-> o.rng]

\* list(iter(sampler)) in the second run
TrainSamplerIter ==
  /\ ts_kind # ""
  /\ ts_passes < 1
  /\ LET o == train_sampler_iter(sm_lengths, sm_weights, sm_num_replicas, ts_rank,
                                 sm_batch_size, ts_consumed, ts_rng)
     IN /\ ts_inner' = o.inner
        /\ ts_batches' = o.batches
        /\ ts_rng' = o.rng
  /\ ts_passes' = ts_passes + 1
  /\ UNCHANGED <<ts_rank, ts_consumed, ts_kind, ts_len, ts_inner_len>>
  /\ UNCHANGED <<sm_lengths, sm_weights, sm_num_replicas, sm_rank, sm_batch_size, sm_rng,
                 sm_drawn, sm_batches, sm_passes>>
  /\ UNCHANGED nonSamplerVars

\* the first run makes one pass
FirstRunIter == sm_passes < 1 /\ SamplerIter

\* values of consumed_train_samples
ConsumedSamples == {0, 1, 2, 5}

\* two runs over the same datasets, weights, dp_size, micro-batch size and
\* seed: the first with the bare DoReMi sampler on rank sm_rank, the second
\* with what _get_train_sampler returns for ts_rank and ts_consumed.  Each run
\* is a process of its own, with its own numpy generator.  The seed argument
\* goes to DistributedSampler.__init__ (line 507) and lines 475-499 never read
\* it nor seed the generator, so the generator of a run is in whatever state
\* its process left it.
InitTrainSampler ==
  /\ IdleExcept("sampler")
  /\ sm_weights \in DomainWeights
  /\ sm_lengths \in [1..Len(sm_weights) -> {MaxLen \div 2, MaxLen}]
  /\ sm_num_replicas \in 1..MaxReplicas
  /\ sm_rank \in 0..(sm_num_replicas - 1)
  /\ \A i \in DOMAIN sm_lengths : sm_lengths[i] >= sm_num_replicas
  /\ sm_batch_size \in 1..MaxBatch
  /\ sm_rng \in 0..(MaxRng - 1)
  /\ sm_drawn = <<>> /\ sm_batches = <<>> /\ sm_passes = 0
  /\ ts_rank \in sm_rank..(sm_num_replicas - 1)
  /\ ts_consumed \in ConsumedSamples
  /\ ts_rng \in {sm_rng, rng_next(sm_rng)}
  /\ LET s == get_train_sampler(Len(sm_lengths), sm_num_replicas, ts_consumed, TRUE)
     IN ts_kind = s.kind /\ ts_len = s.len /\ ts_inner_len = s.inner_len
  /\ ts_inner = <<>> /\ ts_batches = <<>> /\ ts_passes = 0

NextTrainSampler == FirstRunIter \/ TrainSamplerIter

SpecTrainSampler == InitTrainSampler /\ [][NextTrainSampler]_vars

(* ---------------------------- save_optimizer ---------------------------- *)
\* (dist.get_rank(pp_pg), dist.get_rank(dp_pg), dist.get_rank(tp_pg)) of a
\* world rank: its position in the rank matrix of shape (pp, dp, tp)
local_ranks(world_rank, pps, dps, tps) == Unravel3(world_rank, <<pps, dps, tps>>)

\* A file name is the tuple of the parts the f-string joins.
OptimizerConfigFile == << "optimizer_config.json" >>

\* variant of optimizer_filename that leaves the data-parallel part out of
\* the name of a sharded state
optimizer_filename_without_dp(lr, pps, dps, tps, is_zero) ==
  IF is_zero
    THEN << "optimizer", "_pp-", lr[1], "-of-", pps, "_dp-", 0, "-of-", 0,
            "_tp-", lr[3], "-of-", tps, ".pt" >>
    ELSE << "optimizer", "_pp-", lr[1], "-of-", pps, "_tp-", lr[3], "-of-", tps, ".pt" >>

\* optimizer_filename (lines 13-17); ObjectType.OPTIMIZER.value is "optimizer"
optimizer_filename(lr, pps, dps, tps, is_zero) ==
  IF is_zero
    THEN << "optimizer", "_pp-", lr[1], "-of-", pps, "_dp-", lr[2], "-of-", dps,
            "_tp-", lr[3], "-of-", tps, ".pt" >>
    ELSE << "optimizer", "_pp-", lr[1], "-of-", pps, "_tp-", lr[3], "-of-", tps, ".pt" >>

\* the files save_optimizer writes on a world rank, in order (lines 38-52)
save_optimizer_writes(world_rank, pps, dps, tps, is_zero) ==
  LET lr == local_ranks(world_rank, pps, dps, tps)
      config == IF world_rank = 0 THEN << OptimizerConfigFile >> ELSE <<>>
  IN IF ~is_zero /\ lr[2] > 0 THEN config
     ELSE Append(config, optimizer_filename(lr, pps, dps, tps, is_zero))

\* save_optimizer(optimizer, parallel_context, root_folder) on world rank r
save_optimizer(r) ==
  /\ r \in 0..(sv_pp_size * sv_dp_size * sv_tp_size - 1)
  /\ r \notin sv_called
  /\ sv_called' = sv_called \cup {r}
  /\ sv_written' = [sv_written EXCEPT
                      ![r] = save_optimizer_writes(r, sv_pp_size, sv_dp_size, sv_tp_size, sv_is_zero)]
  /\ UNCHANGED <<sv_pp_size, sv_dp_size, sv_tp_size, sv_is_zero>>
  /\ UNCHANGED nonSaveVars

\* a job of pp x dp x tp ranks whose ranks are about to save the optimizer
InitSave ==
  /\ IdleExcept("save")
  /\ sv_pp_size \in 1..MaxAxis /\ sv_dp_size \in 1..MaxAxis /\ sv_tp_size \in 1..MaxAxis
  /\ sv_pp_size * sv_dp_size * sv_tp_size <= MaxWorld
  /\ sv_is_zero \in BOOLEAN
  /\ sv_called = {}
  /\ sv_written = [r \in 0..(sv_pp_size * sv_dp_size * sv_tp_size - 1) |-> <<>>]

NextSave == \E r \in 0..(MaxWorld - 1) : save_optimizer(r)

SpecSave == InitSave /\ [][NextSave]_vars

(* --------------------------- _get_dataset_mix --------------------------- *)
\* split names a caller may request, and the tests "train" in split and
\* "test" in split on them
SplitNames == {"train", "test", "train_ift", "test_rl", "test_train", "validation"}
contains_train(split) == split \in {"train", "train_ift", "test_train"}
contains_test(split) == split \in {"test", "test_rl", "test_train"}

\* the local variable split before the inner loop has assigned it
Unbound == ""

\* the state of the two loops: how they end, the pairs loaded as train and as
\* test datasets, and the value of the local variable split
MixLoop(status, train, test, split) ==
  [status |-> status, train |-> train, test |-> test, split |-> split]

\* for split in splits (lines 134-150), for the dataset at position i, from
\* the j-th split on
RECURSIVE splits_loop(_, _, _, _)
splits_loop(i, splits, j, st) ==
  IF j > Len(splits) THEN st
  ELSE LET split == splits[j]
       IN IF contains_train(split)
            THEN splits_loop(i, splits, j + 1, MixLoop("ok", Append(st.train, <<i, split>>), st.test, split))
          ELSE IF contains_test(split)
            THEN splits_loop(i, splits, j + 1, MixLoop("ok", st.train, Append(st.test, <<i, split>>), split))
          ELSE MixLoop("ValueError", st.train, st.test, split)                  \* line 150

\* for ds, frac in dataset_dict.items() (lines 129-150), from the i-th item on
RECURSIVE datasets_loop(_, _, _, _)
datasets_loop(fracs, i, splits, st) ==
  IF i > Len(fracs) THEN st
  ELSE IF fracs[i] < 0 THEN MixLoop("ValueError", st.train, st.test, st.split)  \* line 131
  ELSE LET inner == splits_loop(i, splits, 1, st)
       IN IF inner.status # "ok" THEN inner
          ELSE datasets_loop(fracs, i + 1, splits, inner)

\* the raise of lines 164-167: the message is built from the local variable
\* split, which has no value when the inner loop never ran
raise_no_dataset(split) == IF split = Unbound THEN "UnboundLocalError" ELSE "ValueError"

\* _get_dataset_mix(dataset_dict, splits) (lines 117-169)
get_dataset_mix_outcome(fracs, splits) ==
  LET l == datasets_loop(fracs, 1, splits, MixLoop("ok", <<>>, <<>>, Unbound))
      raw_datasets == (IF Len(l.train) > 0 THEN {"train"} ELSE {})
                      \cup (IF Len(l.test) > 0 THEN {"test"} ELSE {})
  IN IF l.status # "ok" THEN [status |-> l.status, result |-> {}, loaded |-> l.train \o l.test]
     ELSE IF Cardinality(raw_datasets) = 0
       THEN [status |-> raise_no_dataset(l.split), result |-> {}, loaded |-> l.train \o l.test]
     ELSE [status |-> "ok", result |-> raw_datasets, loaded |-> l.train \o l.test]

\* _get_dataset_mix(dataset_dict, splits=splits)
get_dataset_mix ==
  /\ mix_pc = "call"
  /\ LET o == get_dataset_mix_outcome(mix_fracs, mix_splits)
     IN /\ mix_status' = o.status
        /\ mix_result' = o.result
        /\ mix_loaded' = o.loaded
  /\ mix_pc' = "done"
  /\ UNCHANGED <<mix_fracs, mix_splits>>
  /\ UNCHANGED nonMixVars

\* fractions of the datasets; 1 keeps a whole dataset, 0 none of it
Fractions == {0 - 1, 0, 1}

InitMix ==
  /\ IdleExcept("mix")
  /\ \E n \in 0..MaxDatasets : mix_fracs \in [1..n -> Fractions]
  /\ \E n \in 0..MaxSplits : mix_splits \in [1..n -> SplitNames]
  /\ mix_pc = "call" /\ mix_status = "" /\ mix_result = {} /\ mix_loaded = <<>>

NextMix == get_dataset_mix

SpecMix == InitMix /\ [][NextMix]_vars

(* ------------------------ properties: topology ------------------------ *)
\* rank r has finished init_parallel_groups
GroupsBuilt(r) == pc[r] \in {"groups", "ready", "raised", "destroyed"}

\* the calls rank r issued inside init_parallel_groups after its first barrier
ParallelGroupCalls(r) == SubSeq(log[r], world_pg[r] + 2, Len(log[r]))

\* the member tuples of the groups rank r created inside init_parallel_groups
GroupCreations(r) ==
  LET c == SelectSeq(ParallelGroupCalls(r), LAMBDA x : x.op = "new_group")
  IN [i \in DOMAIN c |-> c[i].arg]

\* the (pipeline, data, tensor) positions that hold rank x in matrix m
PositionsOf(m, x) == {Unravel3(f - 1, m.shape) : f \in {g \in DOMAIN m.data : m.data[g] = x}}

\* C1: once init_parallel_groups has run on a rank, its rank matrix has shape
\* (pp, dp, tp), holds every world rank of [0, world_size) at exactly one
\* (pipeline, data, tensor) position and nothing else, and the tensor, data
\* and pipeline groups selected for the rank contain it and have exactly
\* tp, dp and pp members.
C1_RankMatrixBijectionAndGroupSizes ==
  \A r \in procs : GroupsBuilt(r) =>
    LET m == world_rank_matrix[r]
    IN /\ m.shape = <<pp, dp, tp>>
       /\ Len(m.data) = world_size
       /\ \A x \in 0..(world_size - 1) : Cardinality(PositionsOf(m, x)) = 1
       /\ \A f \in DOMAIN m.data : m.data[f] \in 0..(world_size - 1)
       /\ \A x \in 0..(world_size - 1) : \A q \in PositionsOf(m, x) :
            q[1] \in 0..(pp - 1) /\ q[2] \in 0..(dp - 1) /\ q[3] \in 0..(tp - 1)
       /\ r \in Members(log[r], tp_pg[r]) /\ Cardinality(Members(log[r], tp_pg[r])) = tp
       /\ r \in Members(log[r], dp_pg[r]) /\ Cardinality(Members(log[r], dp_pg[r])) = dp
       /\ r \in Members(log[r], pp_pg[r]) /\ Cardinality(Members(log[r], pp_pg[r])) = pp

C1_Witness ==
  \E r \in procs : pc[r] = "ready" /\ tp = 2 /\ dp = 1 /\ pp = 2 /\ r = 3

\* C2: any two ranks that have run init_parallel_groups for the same
\* (world_size, tp, dp, pp) have issued the same sequence of group-creation
\* calls: same number, same order, same member ranks.
C2_SameGroupCreationSequence ==
  \A a \in procs, b \in procs :
    (GroupsBuilt(a) /\ GroupsBuilt(b)) => GroupCreations(a) = GroupCreations(b)

C2_Witness ==
  \E a \in procs, b \in procs :
    /\ a # b /\ pc[a] = "ready" /\ pc[b] = "ready"
    /\ Len(GroupCreations(a)) > 2
    /\ Members(log[a], tp_pg[a]) # Members(log[b], tp_pg[b])

\* C3: inside init_parallel_groups no two created groups have the same member
\* set, and two axes of a rank that yield the same member set share one group
\* handle.
C3_GroupsDeduplicated ==
  \A r \in procs : GroupsBuilt(r) =>
    LET c == GroupCreations(r)
        h == <<tp_pg[r], dp_pg[r], pp_pg[r]>>
    IN /\ \A i \in DOMAIN c, j \in DOMAIN c : Range(c[i]) = Range(c[j]) => i = j
       /\ \A i \in 1..3, j \in 1..3 :
            Members(log[r], h[i]) = Members(log[r], h[j]) => h[i] = h[j]
       /\ \A k \in DOMAIN world_ranks_to_pg[r] :
            Members(log[r], world_ranks_to_pg[r][k]) = Range(k)

C3_Witness ==
  \E r \in procs : pc[r] = "ready" /\ tp = 1 /\ dp = 1 /\ pp = 2 /\ tp_pg[r] = dp_pg[r]

\* (world_size, tp, dp, pp) passes the three checks
ValidSizes == world_size % dp = 0 /\ world_size % (tp * pp) = 0 /\ tp * dp * pp = world_size

\* C4: a construction whose sizes violate one of the three conditions fails
\* with an assertion error before the device is bound and before any
\* collective call; when the three conditions hold, no assertion of the
\* validation fails.
C4_ValidationFailsFast ==
  \A r \in procs : pc[r] # "new" =>
    /\ ~ValidSizes => (pc[r] = "failed" /\ err[r] = "AssertionError" /\ log[r] = <<>>)
    /\ ValidSizes => ~(pc[r] = "failed" /\ log[r] = <<>> /\ err[r] = "AssertionError")
    /\ (ValidSizes /\ dist_available) => ~(pc[r] = "failed" /\ log[r] = <<>>)

C4_Witness ==
  \E r \in procs :
    /\ pc[r] = "failed" /\ err[r] = "AssertionError" /\ log[r] = <<>>
    /\ world_size % dp = 0 /\ world_size % (tp * pp) = 0 /\ tp * dp * pp # world_size

\* C5: every get_3d_ranks call made with a world rank on a constructed
\* context returns the (pipeline, data, tensor) position of that rank in the
\* row-major rank matrix of shape (pp, dp, tp).
C5_Get3dRanksReturnsPosition ==
  \A r \in procs :
    (ret[r].op = "get_3d_ranks" /\ ret[r].arg[2] = "GLOBAL") =>
      /\ ret[r].status = "ok"
      /\ PositionsOf(world_rank_matrix[r], ret[r].arg[1]) = {ret[r].val}

\* C6: every destroy() call made after a successful construction returns,
\* having released the non-global groups of more than one member after a
\* barrier on each, then issued a barrier and released the global group, and
\* leaves no stored group.
C6_DestroyReleasesAll ==
  \A r \in procs : ret[r].op = "destroy" =>
    /\ ret[r].status = "ok"
    /\ groups[r] = <<>>
    /\ Len(log[r]) >= 2
    /\ log[r][Len(log[r]) - 1] = BarrierCall(DefaultPg)
    /\ log[r][Len(log[r])] = DestroyCall(DefaultPg)

\* C7: a destroy() call made while no global group is registered raises an
\* assertion error, issues no barrier and no release, and leaves the stored
\* groups as they were.
C7_DestroyWithoutGlobalFails ==
  [][\A r \in procs :
       (pc[r] = "ready" /\ ret'[r].op = "destroy" /\ pc'[r] # "ready"
          /\ ~("GLOBAL" \in dict_keys(groups[r])))
       => (ret'[r].status = "AssertionError" /\ pc'[r] = "raised"
           /\ log'[r] = log[r] /\ groups'[r] = groups[r])]_vars

C7_Witness ==
  \E r \in procs :
    /\ pc[r] = "raised" /\ ret[r].op = "destroy" /\ ret[r].status = "AssertionError"
    /\ groups[r] # <<>>

\* the order of the calls of a construction that ran to its end on rank r
StepOrder(r) ==
  LET lg   == log[r]
      wb   == {i \in DOMAIN lg : lg[i] = BarrierCall(world_pg[r])}
      axis == {i \in DOMAIN lg : lg[i].op = "new_group" /\ i # world_pg[r]}
  IN /\ Len(lg) >= 4
     /\ lg[1].op = "set_device"
     /\ \A i \in DOMAIN lg : lg[i].op = "init_process_group" => i = 2
     /\ wb # {}
     /\ axis # {}
     /\ \A i \in axis : \A b \in wb : b < i
     /\ lg[Len(lg)] = BarrierCall(DefaultPg)

\* C8: every construction that passes validation with the supported backend
\* runs to its end, and has then bound the device first, initialised the
\* global group if it was not, issued a barrier on the global group, created
\* the axis groups after it and ended with a barrier.
C8_ConstructionStepsInOrder ==
  \A r \in procs :
    (pc[r] \in {"failed", "ready"} /\ log[r] # <<>> /\ backend = "nccl") =>
      (pc[r] = "ready" /\ StepOrder(r))

(* ------------------------- properties: routing ------------------------ *)
IsReal(v) == v.type = "Tensor"
Members_pp == 0..(pp_size - 1)
Produced == {q \in Members_pp : bstatus[q] = "ok"}

\* the owner rank of field k under the producer in use
OwnerOf(k) ==
  IF source = "set_tensor_pointers" THEN group_rank
  ELSE IF k \in {"input_ids", "input_mask"} THEN input_pp_rank ELSE output_pp_rank

\* field k of the micro-batch on member q follows the routing rule for owner R
Routed(q, k, R) ==
  /\ IsReal(batch[q][k]) <=> q = R
  /\ q # R => batch[q][k] = TensorPointer(R)

C10_FieldsClassifiedByOwnOwner ==
  source \in {"DataCollatorForCLM", "dummy_infinite_data_generator"} =>
    \A q \in Produced :
      /\ DOMAIN batch[q] = FieldNames
      /\ \A k \in {"input_ids", "input_mask"} : Routed(q, k, input_pp_rank)
      /\ \A k \in {"label_ids", "label_mask"} : Routed(q, k, output_pp_rank)
      /\ (q = input_pp_rank /\ q # output_pp_rank) =>
           /\ IsReal(batch[q]["input_ids"]) /\ IsReal(batch[q]["input_mask"])
           /\ batch[q]["label_ids"] = TensorPointer(output_pp_rank)
           /\ batch[q]["label_mask"] = TensorPointer(output_pp_rank)
      /\ (q = output_pp_rank /\ q # input_pp_rank) =>
           /\ IsReal(batch[q]["label_ids"]) /\ IsReal(batch[q]["label_mask"])
           /\ batch[q]["input_ids"] = TensorPointer(input_pp_rank)
           /\ batch[q]["input_mask"] = TensorPointer(input_pp_rank)
      /\ q \notin {input_pp_rank, output_pp_rank} =>
           \A k \in FieldNames : ~IsReal(batch[q][k])
      /\ (q = input_pp_rank /\ q = output_pp_rank) =>
           \A k \in FieldNames : IsReal(batch[q][k])

C10_Witness ==
  /\ source = "DataCollatorForCLM" /\ pp_size = 3
  /\ input_pp_rank = 0 /\ output_pp_rank = 2
  /\ Produced = Members_pp
  /\ IsReal(batch[0]["input_ids"]) /\ batch[0]["label_ids"] = TensorPointer(2)
  /\ IsReal(batch[2]["label_ids"]) /\ batch[2]["input_ids"] = TensorPointer(0)
  /\ \A k \in FieldNames : ~IsReal(batch[1][k])

(* ------------------- properties: cross-rank sanity -------------------- *)
\* a batch was taken from the dataloader with the sanity checks enabled
Checked == sc_n > 0 /\ ~sc_ignore
RealFields == {k \in DOMAIN sc_in : sc_in[k].type = "Tensor"}
NonMaskRealFields == RealFields \cap {"input_ids", "label_ids"}
SameAsDp0(k) == sc_in[k].data = sc_dp0[k].data
SameAsTp0(k) == sc_in[k].data = sc_tp0[k].data
ComparedFields(pg) == {sc_calls[i].arg[2] : i \in {j \in DOMAIN sc_calls : sc_calls[j].arg[1] = pg}}

\* C11 (as stated): with the checks enabled, the micro-batch passes when every
\* real non-mask field is bit-identical to the tensor of the data-parallel
\* group (and nothing differs in the tensor-parallel group), and fails when
\* such a field differs on the rank.
C11_DpPassesWhenIdentical ==
  Checked =>
    /\ ((\A k \in NonMaskRealFields : SameAsDp0(k)) /\ (\A k \in RealFields : SameAsTp0(k))
          => sc_err = NoError)
    /\ ((\E k \in NonMaskRealFields : ~SameAsDp0(k)) => sc_err # NoError)

\* C11 (amended): with the checks enabled, the data-parallel check fails
\* exactly on a rank other than rank 0 of the data-parallel group that holds,
\* for some real non-mask field, a tensor bit-identical to rank 0's; it passes
\* on rank 0 and on a rank whose real non-mask tensors all differ from rank
\* 0's; mask fields and placeholders are not compared in the data-parallel group.
C11_DpExpectsDifferentData ==
  Checked =>
    /\ (sc_err.check = "DP" <=> (sc_dp_rank # 0 /\ \E k \in NonMaskRealFields : SameAsDp0(k)))
    /\ (sc_err.check = "DP" => sc_err.exc = "AssertionError")
    /\ ComparedFields("dp_pg") \subseteq NonMaskRealFields

C11_Witness ==
  /\ Checked /\ sc_dp_rank # 0 /\ sc_err = NoError
  /\ "input_ids" \in RealFields /\ ~SameAsDp0("input_ids")
  /\ "input_mask" \in RealFields /\ SameAsDp0("input_mask")

C13_BatchesPassedThrough ==
  /\ (sc_ignore => sc_calls = <<>> /\ sc_err = NoError /\ sc_yielded = sc_n)
  /\ sc_yielded = (IF sc_err = NoError THEN sc_n ELSE sc_n - 1)
  /\ (sc_n > 0 /\ sc_err = NoError =>
        /\ DOMAIN sc_out = DOMAIN sc_in
        /\ \A k \in DOMAIN sc_in :
             IF sc_in[k].type = "TensorPointer"
               THEN sc_out[k] = sc_in[k]
               ELSE sc_out[k].type = "Tensor" /\ sc_out[k].data = sc_in[k].data
                    /\ sc_out[k].data[1][1] = sc_yielded)

C13_Witness ==
  /\ sc_ignore /\ sc_n >= 2 /\ sc_yielded = sc_n
  /\ \E k \in RealFields : ~SameAsTp0(k)
  /\ \E k \in DOMAIN sc_in : sc_in[k].type = "TensorPointer"

(* ----------------- properties: optimizer construction ----------------- *)
\* the parameter groups as given: a flat list is one group without options
GivenGroups ==
  IF Len(opt_input) > 0 /\ opt_input[1].type = "dict"
    THEN opt_input
    ELSE << [named_params |-> opt_input, options |-> {}] >>
\* the occurrences <<group, position>> of names in the argument
Occurrences == {<<i, j>> : i \in DOMAIN GivenGroups, j \in 1..MaxParams} \cap
               {o \in (1..MaxGroups) \X (1..MaxParams) :
                   o[1] \in DOMAIN GivenGroups /\ o[2] \in DOMAIN GivenGroups[o[1]].named_params}
NameAt(o) == GivenGroups[o[1]].named_params[o[2]].name
GivenNames == {NameAt(o) : o \in Occurrences}
DuplicatedNames == {NameAt(o) : o \in {x \in Occurrences : \E y \in Occurrences : y # x /\ NameAt(y) = NameAt(x)}}
CallsNamed(op) == {i \in DOMAIN opt_calls : opt_calls[i].op = op}

\* C14: a construction whose argument names a parameter twice, in one group
\* or in two, ends with a ValueError naming a duplicated name and has called
\* neither builder; a construction without duplicate does not raise it.
C14_DuplicateNameFailsBeforeBuilders ==
  opt_last = "__init__" =>
    /\ (DuplicatedNames # {} =>
          /\ opt_pc = "failed" /\ opt_status = "ValueError"
          /\ opt_ret[1] \in DuplicatedNames
          /\ opt_calls = <<>>)
    /\ (DuplicatedNames = {} => opt_pc = "built" /\ opt_status = "ok")

C14_Witness ==
  /\ opt_pc = "failed" /\ Len(GivenGroups) = 2
  /\ \A i \in 1..2 : Len(GivenGroups[i].named_params) = 2
                     /\ GivenGroups[i].named_params[1].name # GivenGroups[i].named_params[2].name

\* C15: a successful construction calls the accumulator builder once, first,
\* with one entry per unique name, and the optimizer builder once, last, with
\* the groups in the given order, each with its names in order, its options
\* unchanged and every parameter replaced by the accumulator's view of it.
C15_AccumulatorBuiltBeforeRewiring ==
  opt_pc = "built" /\ opt_last = "__init__" =>
    /\ CallsNamed("gradient_accumulator_builder") = {1}
    /\ dict_keys(opt_calls[1].arg) = GivenNames
    /\ Len(opt_calls[1].arg) = Cardinality(GivenNames)
    /\ \A o \in Occurrences : dict_get(opt_calls[1].arg, NameAt(o)) = GivenGroups[o[1]].named_params[o[2]].param
    /\ CallsNamed("optimizer_builder") = {Len(opt_calls)}
    /\ LET built == opt_calls[Len(opt_calls)].arg
       IN /\ Len(built) = Len(GivenGroups)
          /\ \A i \in DOMAIN GivenGroups :
               /\ built[i].options = GivenGroups[i].options
               /\ Len(built[i].named_params) = Len(GivenGroups[i].named_params)
               /\ \A j \in DOMAIN GivenGroups[i].named_params :
                    /\ built[i].named_params[j].name = NameAt(<<i, j>>)
                    /\ built[i].named_params[j].param = Param("optimizer_view", NameAt(<<i, j>>), 0, 0)
                    /\ built[i].named_params[j].param # GivenGroups[i].named_params[j].param

C15_Witness ==
  /\ opt_pc = "built" /\ opt_last = "__init__" /\ Len(GivenGroups) = 2
  /\ Len(GivenGroups[1].named_params) = 1 /\ Len(GivenGroups[2].named_params) = 1
  /\ GivenGroups[1].options # {} /\ GivenGroups[2].options = {}

(* ------------------- properties: optimizer methods -------------------- *)
CalledOps == [i \in DOMAIN opt_calls |-> opt_calls[i].op]

\* C16: step() calls the wrapped optimizer's step once, then the accumulator's
\* step once, and returns what the wrapped optimizer returned;
\* zero_grad(set_to_none) calls zero_grad once on each with that set_to_none.
C16_StepThenAccumulator ==
  /\ (opt_last = "step" =>
        /\ CalledOps = << "optimizer.step", "gradient_accumulator.step" >>
        /\ opt_calls[1].arg = opt_in
        /\ opt_status = "ok"
        /\ opt_ret = (IF opt_in[1] THEN << base_state[CHOOSE k \in DOMAIN base_state : TRUE][1] - 1 >>
                      ELSE <<>>))
  /\ (opt_last = "zero_grad" =>
        /\ CalledOps = << "optimizer.zero_grad", "gradient_accumulator.zero_grad" >>
        /\ opt_calls[1].arg = opt_in /\ opt_calls[2].arg = opt_in
        /\ opt_status = "ok")

C16_Witness ==
  /\ opt_last = "step" /\ opt_in = <<TRUE>> /\ opt_ret = <<1>> /\ acc_state = <<2, 1>>

\* C17: state_dict() returns the wrapped optimizer's mapping, keys and values
\* unchanged, plus the key "gradient_accumulator" holding the accumulator's
\* state; it fails with an AssertionError when the wrapped optimizer's mapping
\* already has that key.
C17_StateDictAddsOneKey ==
  opt_last = "state_dict" =>
    IF "gradient_accumulator" \in DOMAIN base_state
      THEN opt_status = "AssertionError"
      ELSE /\ opt_status = "ok"
           /\ DOMAIN opt_ret = DOMAIN base_state \cup {"gradient_accumulator"}
           /\ \A k \in DOMAIN base_state : opt_ret[k] = base_state[k]
           /\ opt_ret["gradient_accumulator"] = acc_state

C17_Witness ==
  /\ opt_last = "state_dict" /\ opt_status = "ok"
  /\ DOMAIN base_state = {"state", "param_groups"} /\ acc_state[1] > 0

\* C18: load_state_dict(m) hands to the wrapped optimizer every entry of m but
\* "gradient_accumulator", never that key, and restores the accumulator from
\* the removed entry.
C18_AccumulatorKeyRemovedBeforeDelegating ==
  opt_last = "load_state_dict" /\ opt_status = "ok" =>
    /\ CalledOps = << "optimizer.load_state_dict", "gradient_accumulator.load_state_dict" >>
    /\ "gradient_accumulator" \notin DOMAIN opt_calls[1].arg
    /\ DOMAIN opt_calls[1].arg = DOMAIN opt_in \ {"gradient_accumulator"}
    /\ \A k \in DOMAIN opt_calls[1].arg : opt_calls[1].arg[k] = opt_in[k]
    /\ opt_calls[2].arg = opt_in["gradient_accumulator"]
    /\ base_state = opt_calls[1].arg
    /\ acc_state = opt_in["gradient_accumulator"]

C18_Witness ==
  /\ opt_last = "load_state_dict" /\ opt_status = "ok"
  /\ DOMAIN opt_in = {"state", "param_groups", "gradient_accumulator"}
  /\ acc_state = <<0, 2>>

PartitionSize(i) == sm_lengths[i] \div sm_num_replicas
Offset(i) == sum(SubSeq(sm_lengths, 1, i - 1))
Distinct(s) == \A a \in DOMAIN s, b \in DOMAIN s : a # b => s[a] # s[b]
InRankPartition(i, x) ==
  /\ Offset(i) + sm_rank * PartitionSize(i) <= x
  /\ x < Offset(i) + (sm_rank + 1) * PartitionSize(i)

\* C20: in a pass on rank r, for each sub-dataset i exactly
\* floor(P_i * w_i / sum(w)) pairwise distinct indices are drawn, each in
\* [O_i + r * P_i, O_i + (r + 1) * P_i), with P_i = L_i // dp_size and O_i the
\* cumulative offset.
C20_WeightedDrawsFromRankPartition ==
  sm_passes > 0 =>
    /\ Len(sm_drawn) = Len(sm_lengths)
    /\ \A i \in DOMAIN sm_lengths :
         /\ Len(sm_drawn[i]) = (PartitionSize(i) * sm_weights[i]) \div sum(sm_weights)
         /\ Distinct(sm_drawn[i])
         /\ \A j \in DOMAIN sm_drawn[i] : InRankPartition(i, sm_drawn[i][j])


(* ------------------------ properties: two sampler runs ------------------------ *)
\* the indices in the first k batches of a pass
IndicesOf(batches, k) == UNION { {batches[b][j] : j \in 1..Len(batches[b])} : b \in 1..k }

\* both runs have made their pass
BothRunsDone == sm_passes = 1 /\ ts_passes = 1

\* C21: the global indices the DoReMi sampler emits on two different dp ranks
\* are disjoint, whatever the generators drew and however many batches of its
\* pass each rank consumed
C21_RanksEmitDisjointIndices ==
  (BothRunsDone /\ ts_rank # sm_rank) =>
    \A a \in 0..Len(sm_batches) : \A b \in 0..Len(ts_inner) :
      IndicesOf(sm_batches, a) \cap IndicesOf(ts_inner, b) = {}

C21_Witness ==
  /\ BothRunsDone /\ ts_rank # sm_rank
  /\ Len(sm_batches) >= 2 /\ Len(ts_inner) >= 2

\* C22: two independent runs with the same seed, lengths, weights, dp_size,
\* dp_rank and micro-batch size, nothing consumed, emit the same sequence of
\* index batches
C22_SameArgumentsSameBatches ==
  (BothRunsDone /\ ts_rank = sm_rank /\ ts_consumed = 0) => ts_batches = sm_batches

\* C23: consumed_train_samples S > 0 gives a SkipBatchSampler that drops the
\* first S // dp_size batches of the wrapped sampler, yields the others
\* unchanged and in order, and whose length is the wrapped length minus
\* S // dp_size; S = 0 gives the DoReMi sampler itself
C23_SkipBatchSamplerDropsPrefix ==
  LET k == ts_consumed \div sm_num_replicas
  IN /\ (ts_kind # "" /\ ts_consumed > 0) =>
          /\ ts_kind = "SkipBatchSampler"
          /\ ts_len = ts_inner_len - k
          /\ ts_passes = 1 =>
                /\ Len(ts_batches) = (IF Len(ts_inner) > k THEN Len(ts_inner) - k ELSE 0)
                /\ \A j \in 1..Len(ts_batches) : ts_batches[j] = ts_inner[j + k]
     /\ (ts_kind # "" /\ ts_consumed = 0) =>
          /\ ts_kind = "DistributedSamplerForDoReMi"
          /\ ts_len = ts_inner_len
          /\ ts_passes = 1 => ts_batches = ts_inner

C23_Witness ==
  /\ ts_passes = 1 /\ ts_consumed > 0
  /\ ts_consumed \div sm_num_replicas >= 1
  /\ ts_consumed % sm_num_replicas # 0
  /\ Len(ts_batches) >= 1 /\ Len(ts_batches) < Len(ts_inner)

\* C24: with rank count and seed fixed, a run resumed with
\* consumed_train_samples = S yields exactly the batches an uninterrupted run
\* on the same rank yields after the S // dp_size batches that rank's share of
\* the first S samples took
C24_ResumedRunContinuesUninterrupted ==
  (BothRunsDone /\ ts_rank = sm_rank) =>
    ts_batches = SubSeq(sm_batches, (ts_consumed \div sm_num_replicas) + 1, Len(sm_batches))

(* ------------------------ properties: one sampler pass ------------------------ *)
\* the indices of the last pass in the order emitted, and how many were drawn
Emitted == extend_all(sm_batches)
DrawnCount == sum([i \in DOMAIN sm_drawn |-> Len(sm_drawn[i])])

\* n = floor(P_i * w) for w the float32 weight self.domain_weights[i]
IsFloorOfWeighted(n, i) ==
  LET w == f32_div(sm_weights[i], sum(sm_weights))
  IN /\ n * Pow2(w.e) <= PartitionSize(i) * w.m
     /\ PartitionSize(i) * w.m < (n + 1) * Pow2(w.e)

LoadEnds == opt_last' = "load_state_dict"

\* C29: load_state_dict changes the mapping it is given: after a successful
\* call the caller's mapping has lost "gradient_accumulator" and nothing else,
\* so loading the same mapping again ends with a KeyError; a call with a
\* mapping that lacks the key ends with a KeyError before the wrapped
\* optimizer or the accumulator is called, and leaves both states as they were
C29_LoadStateDictConsumesTheKey ==
  [][LoadEnds =>
       /\ opt_status' = "ok" =>
            /\ "gradient_accumulator" \in DOMAIN opt_in'
            /\ DOMAIN opt_arg' = DOMAIN opt_in' \ {"gradient_accumulator"}
            /\ \A k \in DOMAIN opt_arg' : opt_arg'[k] = opt_in'[k]
       /\ (opt_last = "load_state_dict" /\ opt_status = "ok" /\ opt_in' = opt_arg) =>
            opt_status' = "KeyError"
       /\ "gradient_accumulator" \notin DOMAIN opt_in' =>
            /\ opt_status' = "KeyError"
            /\ opt_calls' = <<>>
            /\ base_state' = base_state /\ acc_state' = acc_state
            /\ opt_arg' = opt_in']_vars

\* a mapping that a successful load_state_dict stripped was loaded again
\* (no fresh mapping has the keys state and param_groups only)
C29_Witness ==
  /\ opt_last = "load_state_dict" /\ opt_status = "KeyError"
  /\ DOMAIN opt_in = {"state", "param_groups"}
  /\ opt_arg = opt_in /\ opt_calls = <<>>
  /\ acc_state = <<0, 2>>

(* ------------------------ properties: the global group ------------------------ *)
\* the positions of the new_group calls rank r has issued since the start of
\* the construction, that of init_global_dist included
AllGroupCreations(r) == {h \in DOMAIN log[r] : log[r][h].op = "new_group"}

\* C28: over a whole construction, global group included, no group is created
\* whose member set is that of a group created before
C28_NoGroupCreatedTwice ==
  \A r \in procs : GroupsBuilt(r) =>
    \A i \in AllGroupCreations(r), j \in AllGroupCreations(r) :
      Members(log[r], i) = Members(log[r], j) => i = j

(* ------------------------ properties: members of a group ------------------------ *)
\* the fields that are tensors on the pipeline stage of the grid
StageHolds(k) ==
  \/ k \in {"input_ids", "input_mask"} /\ grp_pp_rank = grp_input_pp_rank
  \/ k \in {"label_ids", "label_mask"} /\ grp_pp_rank = grp_output_pp_rank

\* the comparisons of a member that completes them all: the tensors that are
\* no masks in the data-parallel group, then all tensors in the
\* tensor-parallel group, each time in ascending order of the field name
StageComparisons ==
  IF grp_ignore THEN <<>>
  ELSE LET dpk == SelectSeq(KeyOrder, LAMBDA k : StageHolds(k) /\ k \in {"input_ids", "label_ids"})
           tpk == SelectSeq(KeyOrder, LAMBDA k : StageHolds(k))
       IN [i \in 1..Len(dpk) |-> [op |-> "broadcast", arg |-> <<"dp_pg", dpk[i]>>]]
          \o [i \in 1..Len(tpk) |-> [op |-> "broadcast", arg |-> <<"tp_pg", tpk[i]>>]]

\* the comparisons member x made in group pg
ComparisonsIn(x, pg) == SelectSeq(grp_calls[x], LAMBDA c : c.arg[1] = pg)

\* C27 (as stated): all members of a data-parallel group make the same
\* sequence of comparisons in that group, and all members of a
\* tensor-parallel group the same sequence in theirs: none skips a comparison
\* another member performs
C27_MembersCompareSameSequence ==
  grp_n > 0 =>
    \A x \in GridMembers, y \in GridMembers :
      /\ x[2] = y[2] => ComparisonsIn(x, "dp_pg") = ComparisonsIn(y, "dp_pg")
      /\ x[1] = y[1] => ComparisonsIn(x, "tp_pg") = ComparisonsIn(y, "tp_pg")

\* C27 (amended): every member makes a prefix of one sequence fixed by the
\* pipeline stage (data-parallel comparisons of the tensors that are no
\* masks, then tensor-parallel comparisons of all tensors, ascending field
\* names): the whole sequence when no check fails on it, and the part up to
\* and including the failing comparison when one fails
C27_MembersComparePrefixOfSameSequence ==
  grp_n > 0 =>
    \A x \in GridMembers :
      /\ Len(grp_calls[x]) <= Len(StageComparisons)
      /\ grp_calls[x] = SubSeq(StageComparisons, 1, Len(grp_calls[x]))
      /\ grp_err[x] = NoError => grp_calls[x] = StageComparisons
      /\ grp_err[x] # NoError =>
           /\ Len(grp_calls[x]) >= 1
           /\ grp_calls[x][Len(grp_calls[x])].arg[1] = (IF grp_err[x].check = "DP" THEN "dp_pg" ELSE "tp_pg")

C27_Witness ==
  /\ grp_n > 0 /\ ~grp_ignore
  /\ Len(StageComparisons) = 6
  /\ grp_err[<<0, 0>>] = NoError /\ Len(grp_calls[<<0, 0>>]) = 6
  /\ grp_err[<<1, 0>>].check = "DP" /\ Len(grp_calls[<<1, 0>>]) = 1
  /\ grp_err[<<0, 1>>].check = "TP" /\ Len(grp_calls[<<0, 1>>]) = 3
  /\ grp_err[<<1, 1>>] = NoError

(* ------------------------ properties: saved files ------------------------ *)
SaveRanks == 0..(sv_pp_size * sv_dp_size * sv_tp_size - 1)

\* the state files world rank r wrote, and the ranks that wrote file f
StateFilesOf(r) == {sv_written[r][i] : i \in DOMAIN sv_written[r]} \ {OptimizerConfigFile}
WritersOf(f) == {r \in SaveRanks : \E i \in DOMAIN sv_written[r] : sv_written[r][i] = f}

\* world rank r is at data-parallel rank 0
AtDpRankZero(r) ==
  \E p \in 0..(sv_pp_size - 1), t \in 0..(sv_tp_size - 1) :
    r = (p * sv_dp_size + 0) * sv_tp_size + t

\* C26: a sharded optimizer is written by every rank, one state file each,
\* no file name shared; an optimizer that is not sharded is written by the
\* ranks of data-parallel rank 0 and no other, one file per (pipeline,
\* tensor) position, no file name shared; optimizer_config.json is written
\* by world rank 0 only
C26_StateFilesByRank ==
  /\ \A r \in sv_called :
       /\ Len(sv_written[r]) = Cardinality(StateFilesOf(r)) + (IF r = 0 THEN 1 ELSE 0)
       /\ Cardinality(StateFilesOf(r)) = (IF sv_is_zero \/ AtDpRankZero(r) THEN 1 ELSE 0)
       /\ \A q \in sv_called : q # r => StateFilesOf(q) \cap StateFilesOf(r) = {}
       /\ (r \in WritersOf(OptimizerConfigFile)) <=> (r = 0)
  /\ sv_called = SaveRanks =>
       Cardinality(UNION {StateFilesOf(r) : r \in SaveRanks})
         = (IF sv_is_zero THEN sv_pp_size * sv_dp_size * sv_tp_size ELSE sv_pp_size * sv_tp_size)

C26_Witness ==
  /\ sv_called = SaveRanks /\ ~sv_is_zero
  /\ sv_pp_size = 2 /\ sv_dp_size = 2 /\ sv_tp_size = 2
  /\ sv_written[0] # <<>> /\ sv_written[2] = <<>>

(* ------------------------ properties: dataset mix ------------------------ *)
\* the split names requested
SplitsRequested == {mix_splits[j] : j \in DOMAIN mix_splits}
UnrecognizedSplit == \E sp \in SplitsRequested : ~contains_train(sp) /\ ~contains_test(sp)
NegativeFraction == \E i \in DOMAIN mix_fracs : mix_fracs[i] < 0

\* no dataset is loaded for a train split nor for a test split
NoDatasetResults ==
  \/ Len(mix_fracs) = 0
  \/ \A sp \in SplitsRequested : ~contains_train(sp) /\ ~contains_test(sp)

\* C25: _get_dataset_mix raises a ValueError when a requested split name is
\* neither a train nor a test name, when a fraction is negative, and when no
\* train and no test dataset results; when it succeeds the result has "train"
\* iff some split name contains "train", and "test" iff some split name
\* contains "test" and not "train"
C25_DatasetMixOutcome ==
  mix_pc = "done" =>
    /\ (UnrecognizedSplit \/ NegativeFraction \/ NoDatasetResults) => mix_status = "ValueError"
    /\ mix_status = "ok" =>
         /\ ("train" \in mix_result) <=> (\E sp \in SplitsRequested : contains_train(sp))
         /\ ("test" \in mix_result) <=>
              (\E sp \in SplitsRequested : contains_test(sp) /\ ~contains_train(sp))
====
